---------------------------- MODULE Spec2Model ----------------------------
(***************************************************************************)
(* Model of tools/wiretap-server/wiretap-server.py (WireTAP).              *)
(*                                                                         *)
(* Part 1: the durable ingest pipeline: PostgresWriter (bounded queue,     *)
(* batching worker thread, close() on the owner thread) and DiskCache (the *)
(* SQLite spill store).                                                    *)
(*                                                                         *)
(* A queued row is modelled by the number of the enqueue call that built   *)
(* it (1, 2, ...), so that rows can be told apart and their order read     *)
(* off; the wake-up item () that close() puts in the queue is Sentinel.    *)
(* Time is counted in half seconds (backoff 0.5 s = 1, 10 s = 20).         *)
(*                                                                         *)
(* Part 2: the bridge: GVRETClient (one client session: handshake, request *)
(* parser, frame push) and CanTcpServer (session registry, fan-out of bus  *)
(* frames, transmit path).  Bytes are numbers 0..255, byte strings are     *)
(* sequences of them, and a 32-bit word is a pair of 16-bit halves         *)
(* [hi, lo], so that masks, flags and byte order are computed as the code  *)
(* computes them.                                                          *)
(***************************************************************************)
EXTENDS Integers, Sequences, FiniteSets, TLC

\* ----------------------------------------------------------------- bounds
MaxEnq == 4
QueueMax == 3
BatchSize == 2
CacheMax == 3
MaxDbFail == 1
MaxAppend == 5
MaxHsLen == 6
MaxReqs == 2
MaxOffset == 1
MaxSocks == 2
MaxClients == 2
MaxFrames == 1
MaxOrderFrames == 3
MaxLenArg == 66
MaxDlcArg == 17
MaxSends == 3
WarnCap == 10
MaxWarnEnq == 14

\* ------------------------------------------------------ program constants
QueueFlushPct == 50
BackoffInit == 1
BackoffCap == 20
JoinTimeout == 10

Sentinel == 0

VARIABLES
    q,                      \* self.q: the bounded in-memory queue (head first)
    alive,                  \* self._alive
    conn,                   \* getattr(self, "_conn", None) is a live connection
    db_unavailable,         \* self._db_unavailable
    draining_cache,         \* self._draining_cache
    disk_cache,             \* self._disk_cache: [frames, seq, size, closed]
    count_enqueued,
    count_written,
    count_dropped,
    count_cached,
    count_cache_recovered,
    wpc,                    \* position of the worker thread
    batch,                  \* _worker: batch
    ids,                    \* _worker: ids
    backoff,                \* _worker: backoff
    drainBatch,             \* _drain_queue_to_cache: batch
    drainRet,               \* where _drain_queue_to_cache returns to
    remaining,              \* _shutdown_flush: remaining
    opc,                    \* position of the owner thread (main / close())
    emBatch,                \* _emergency_flush_to_disk: batch
    dbUp,                   \* environment: the SQL store accepts connections and statements
    dbFails,                \* environment: number of outages so far
    committed,              \* environment: rows committed to the SQL store, in commit order
    attempts,               \* history: number of enqueue calls so far
    droppedRows,            \* history: rows that a count_dropped increment accounted for
    memCommitted,           \* history: rows committed straight from the in-memory queue
    dcLog,                  \* history: identifiers handed out by write_batch, in append order
    last_bucket,            \* self._last_bucket
    closeMark,              \* history: number of enqueue calls made when close() began (-1 before)
    cfg,                    \* CanTcpServer configuration: [bus_offset, nsocks, pg, can_fd,
                            \*   dir (default_dir)]
    gvret_clients,          \* CanTcpServer.gvret_clients: the registered sessions
    gv,                     \* per session: [binary, buf, alive, out (messages written to the client)]
    wire,                   \* environment, per session: [data the peer sends, at = bytes delivered,
                            \*   now = last clock reading, sock = ok / eof / reset / wfail]
    can_tx,                 \* environment, per Bus Socket index: the frames written to it
    ingest,                 \* the enqueue calls made by the bridge, in call order
    tx_calls,               \* the tx_func calls made by the sessions, in call order
    bus_rx,                 \* environment: the frames read from the Bus Sockets, in read order
    running,                \* the event loop of CanTcpServer.run() is still running
    calc,                   \* a call of dlc_to_len / len_to_dlc: its argument and results
    snd,                    \* one session's send path: [lock, pc, rest, n, alive, out]
    reg                     \* per thread inside `self.count_x += n`: [pc, tmp, n]

vars == << q, alive, conn, db_unavailable, draining_cache, disk_cache,
           count_enqueued, count_written, count_dropped, count_cached,
           count_cache_recovered, wpc, batch, ids, backoff, drainBatch, drainRet,
           remaining, opc, emBatch, dbUp, dbFails, committed, attempts,
           droppedRows, memCommitted, dcLog, last_bucket, closeMark,
           cfg, gvret_clients, gv, wire, can_tx, ingest, tx_calls, bus_rx, running, calc,
           snd, reg >>

bridgeVars == << cfg, gvret_clients, gv, wire, can_tx, ingest, tx_calls, bus_rx, running, calc,
           snd, reg >>

\* ---------------------------------------------------------------- helpers
Min(a, b) == IF a <= b THEN a ELSE b
Max(a, b) == IF a >= b THEN a ELSE b

Range(s) == { s[i] : i \in 1..Len(s) }

\* `item and len(item) == 9`: a real row, not the wake-up item ()
IsRow(item) == item # Sentinel

\* --------------------------------------------------------------- DiskCache
\* DiskCache.__init__ / _init_db on a fresh file: empty table frames, the
\* AUTOINCREMENT sequence at its start, nothing written to the file yet.
NewDiskCache == [frames |-> {}, seq |-> 0, size |-> 0, closed |-> FALSE]

\* DiskCache.is_empty / DiskCache.count
IsEmpty(dc) == dc.frames = {}
Count(dc) == Cardinality(dc.frames)

\* DiskCache.is_full: size_bytes() >= max_bytes.  The file size is counted in
\* rows; a SQLite file grows when rows are inserted past its high-water mark
\* and does not shrink when rows are deleted.
IsFull(dc) == dc.size >= CacheMax

AssignIdsRev(dc, rows) == [i \in 1..Len(rows) |-> dc.seq + Len(rows) + 1 - i]

AssignIdsReuse(dc, rows) == [i \in 1..Len(rows) |-> Cardinality(dc.frames) + i]

\* id INTEGER PRIMARY KEY AUTOINCREMENT under executemany: the rows of the list
\* get, in list order, the identifiers that follow the largest one ever used
\* (never reused, also after deletes).
AssignIds(dc, rows) == [i \in 1..Len(rows) |-> dc.seq + i]

\* DiskCache.write_batch: executemany INSERT of the rows, then commit.
WriteBatch(dc, rows) ==
    LET id == AssignIds(dc, rows)
    IN  [dc EXCEPT !.frames = @ \cup { [id |-> id[i], row |-> rows[i]] : i \in 1..Len(rows) },
                   !.seq = @ + Len(rows),
                   !.size = Max(@, Cardinality(dc.frames) + Len(rows))]

\* SELECT ... ORDER BY id: the records of the table by ascending identifier.
RECURSIVE OrderById(_)
OrderById(S) ==
    IF S = {} THEN << >>
    ELSE LET m == CHOOSE r \in S : \A o \in S : r.id <= o.id
         IN  << m >> \o OrderById(S \ {m})

ReadBatchUnordered(dc, limit) ==
    LET all == OrderById(dc.frames)
        n == Min(limit, Len(all))
        pick == [i \in 1..n |-> all[Len(all) + 1 - i]]
    IN  [ids |-> [i \in 1..n |-> pick[i].id], rows |-> [i \in 1..n |-> pick[i].row]]

\* DiskCache.read_batch: SELECT ... FROM frames ORDER BY id LIMIT ?
ReadBatch(dc, limit) ==
    LET all == OrderById(dc.frames)
        n == Min(limit, Len(all))
    IN  [ids |-> [i \in 1..n |-> all[i].id], rows |-> [i \in 1..n |-> all[i].row]]

\* DiskCache.delete_batch: DELETE FROM frames WHERE id IN (...)
DeleteBatch(dc, idseq) ==
    [dc EXCEPT !.frames = { r \in @ : r.id \notin Range(idseq) }]

\* DiskCache.close
CloseCache(dc) == [dc EXCEPT !.closed = TRUE]

\* The rows in the spill store, oldest first.
CacheRows(dc) == ReadBatch(dc, Cardinality(dc.frames)).rows


\* ---------------------------------------------------------- PostgresWriter
\* PostgresWriter._bucket_for_ratio, on ratio = size / cap
BucketForRatio(size, cap) ==
    IF size >= cap THEN 100
    ELSE IF 100 * size >= 95 * cap THEN 95
    ELSE IF 100 * size >= 80 * cap THEN 80
    ELSE -1

\* PostgresWriter._maybe_warn_thresholds: the new value of _last_bucket
WarnThresholds(size, cap, last) ==
    LET bucket == BucketForRatio(size, cap)
    IN  IF bucket \notin {-1, last} THEN bucket
        ELSE IF bucket = -1 /\ last # -1 THEN -1
        ELSE last

\* State after PostgresWriter.__init__ with the spill store dc (DiskCache
\* opens the file at its path, creating it if there is none), worker started.
InitWriterOn(dc) ==
    /\ q = << >>
    /\ alive = TRUE
    /\ conn = FALSE
    /\ db_unavailable = FALSE
    /\ draining_cache = FALSE
    /\ disk_cache = dc
    /\ count_enqueued = 0
    /\ count_written = 0
    /\ count_dropped = 0
    /\ count_cached = 0
    /\ count_cache_recovered = 0
    /\ wpc = "loop"
    /\ batch = << >>
    /\ ids = << >>
    /\ backoff = BackoffInit
    /\ drainBatch = << >>
    /\ drainRet = "connect"
    /\ remaining = << >>
    /\ opc = "run"
    /\ emBatch = << >>
    /\ dbUp \in BOOLEAN
    /\ dbFails = 0
    /\ committed = << >>
    /\ attempts = 0
    /\ droppedRows = {}
    /\ memCommitted = {}
    /\ dcLog = << >>
    /\ last_bucket = -1
    /\ closeMark = -1

\* State after PostgresWriter.__init__ on a fresh spill file.
InitWriter == InitWriterOn(NewDiskCache)

\* The tasks that write to one session's connection: its receive thread
\* (responses) and the Bridge Core (frame pushes).
Senders == { "rx", "core" }

\* No call of _send under way: the lock free, nothing written.
NoSend == [lock |-> "free", pc |-> [t \in Senders |-> "idle"], rest |-> [t \in Senders |-> << >>],
           n |-> 0, alive |-> TRUE, out |-> << >>]

\* The threads that update the ingest counters: the Bridge Core (enqueue of
\* received frames), a session thread (enqueue in _tx_can) and the worker
\* (_write_to_cache).
Counters == { "core", "session", "worker" }

\* No thread inside a counter update.
NoReg == [t \in Counters |-> [pc |-> "idle", tmp |-> 0, n |-> 0]]

\* No call of the DLC helpers under way.
NoCalc == [fn |-> "none", arg |-> 0, is_fd |-> FALSE, stage |-> 0, mid |-> 0, res |-> 0]

\* State after CanTcpServer.__init__ with one interface, bus_offset 0 and
\* ingest enabled: no session registered, nothing written yet.
InitServerDefault ==
    /\ cfg = [bus_offset |-> 0, nsocks |-> 1, pg |-> TRUE, can_fd |-> FALSE, dir |-> "rx"]
    /\ gvret_clients = {}
    /\ gv = << >>
    /\ wire = << >>
    /\ can_tx = << >>
    /\ ingest = << >>
    /\ tx_calls = << >>
    /\ bus_rx = << >>
    /\ running = TRUE

Init == InitWriter /\ InitServerDefault /\ calc = NoCalc /\ snd = NoSend /\ reg = NoReg

workerVars == << conn, db_unavailable, draining_cache, wpc, batch, ids, backoff,
                 drainBatch, drainRet, remaining >>
ownerVars == << alive, opc, emBatch, closeMark >>
envVars == << dbUp, dbFails >>
cacheVars == << disk_cache, count_cached, dcLog >>
counterVars == << count_enqueued, count_written, count_dropped, count_cached,
                  count_cache_recovered >>

EnqueueBlind ==
    /\ attempts < MaxEnq
    /\ attempts' = attempts + 1
    /\ q' = Append(q, attempts + 1)
    /\ count_enqueued' = count_enqueued + 1
    /\ last_bucket' = WarnThresholds(Len(q'), QueueMax, last_bucket)
    /\ UNCHANGED count_dropped
    /\ UNCHANGED << workerVars, ownerVars, envVars, cacheVars, count_written,
                    count_cache_recovered, committed, droppedRows, memCommitted,
                    bridgeVars >>

\* PostgresWriter.enqueue, called by the Bridge Core thread (received frames)
\* and by client session threads (transmitted frames): put_nowait, then the
\* counters.  A row rejected by a full queue never enters the pipeline.
Enqueue ==
    /\ attempts < MaxEnq
    /\ attempts' = attempts + 1
    /\ IF Len(q) < QueueMax
       THEN /\ q' = Append(q, attempts + 1)
            /\ count_enqueued' = count_enqueued + 1
            /\ last_bucket' = WarnThresholds(Len(q'), QueueMax, last_bucket)
            /\ UNCHANGED count_dropped
       ELSE /\ count_dropped' = count_dropped + 1
            /\ UNCHANGED << q, count_enqueued, last_bucket >>
    /\ UNCHANGED << workerVars, ownerVars, envVars, cacheVars, count_written,
                    count_cache_recovered, committed, droppedRows, memCommitted,
                    bridgeVars >>

WriteToCacheSilent(dc, b) ==
    IF IsFull(dc) THEN [dc |-> dc, cached |-> 0, dropped |-> 0]
    ELSE IF dc.closed THEN [dc |-> dc, cached |-> 0, dropped |-> Len(b)]
    ELSE [dc |-> WriteBatch(dc, b), cached |-> Len(b), dropped |-> 0]

WriteToCacheOverfill(dc, b) ==
    IF dc.closed THEN [dc |-> dc, cached |-> 0, dropped |-> Len(b)]
    ELSE [dc |-> WriteBatch(dc, b), cached |-> Len(b), dropped |-> 0]

\* PostgresWriter._write_to_cache(b): what it does to the spill store and by
\* how much it bumps count_cached / count_dropped.  write_batch on a closed
\* SQLite connection raises, which the handler counts as a drop.
WriteToCache(dc, b) ==
    IF IsFull(dc) THEN [dc |-> dc, cached |-> 0, dropped |-> Len(b)]
    ELSE IF dc.closed THEN [dc |-> dc, cached |-> 0, dropped |-> Len(b)]
    ELSE [dc |-> WriteBatch(dc, b), cached |-> Len(b), dropped |-> 0]

\* A call of _write_to_cache(b) by the running thread; closeAfter: the caller
\* closes the spill store right after it (_shutdown_flush).
Spill(b, closeAfter) ==
    LET r == WriteToCache(disk_cache, b)
    IN  /\ disk_cache' = IF closeAfter THEN CloseCache(r.dc) ELSE r.dc
        /\ count_cached' = count_cached + r.cached
        /\ count_dropped' = count_dropped + r.dropped
        /\ droppedRows' = IF r.dropped > 0 THEN droppedRows \cup Range(b) ELSE droppedRows
        /\ dcLog' = IF r.cached > 0 THEN dcLog \o AssignIds(disk_cache, b) ELSE dcLog

\* What a worker step leaves alone besides its own variables.
WorkerQuiet == UNCHANGED << ownerVars, envVars, attempts, last_bucket, count_enqueued, bridgeVars >>
NoSpill == UNCHANGED << disk_cache, count_cached, count_dropped, droppedRows, dcLog >>
NoCommit == UNCHANGED << committed, memCommitted, count_written, count_cache_recovered >>

\* _maybe_flush_queue_overflow: size / cap >= self._queue_flush_threshold
OverThreshold(size) == 100 * size >= QueueFlushPct * QueueMax

\* _worker: `while self._alive:` (line 508)
W_LoopTest ==
    /\ wpc = "loop"
    /\ wpc' = IF alive THEN "overflow" ELSE "sf_get"
    /\ remaining' = << >>
    /\ UNCHANGED << conn, db_unavailable, draining_cache, batch, ids, backoff,
                    drainBatch, drainRet, q >>
    /\ WorkerQuiet /\ NoSpill /\ NoCommit

\* A flush that runs only while the SQL store is marked unavailable.
W_OverflowWhenDown ==
    /\ wpc = "overflow"
    /\ IF OverThreshold(Len(q)) /\ db_unavailable
       THEN wpc' = "drain" /\ drainBatch' = << >> /\ drainRet' = "connect"
       ELSE wpc' = "connect" /\ UNCHANGED << drainBatch, drainRet >>
    /\ UNCHANGED << conn, db_unavailable, draining_cache, batch, ids, backoff,
                    remaining, q >>
    /\ WorkerQuiet /\ NoSpill /\ NoCommit

\* _worker: self._maybe_flush_queue_overflow() (lines 511, 647-659)
W_Overflow ==
    /\ wpc = "overflow"
    /\ IF OverThreshold(Len(q))
       THEN wpc' = "drain" /\ drainBatch' = << >> /\ drainRet' = "connect"
       ELSE wpc' = "connect" /\ UNCHANGED << drainBatch, drainRet >>
    /\ UNCHANGED << conn, db_unavailable, draining_cache, batch, ids, backoff,
                    remaining, q >>
    /\ WorkerQuiet /\ NoSpill /\ NoCommit

\* _drain_queue_to_cache: one q.get_nowait() of its loop (lines 628-638); on
\* Empty the loop ends (lines 640-642).
W_DrainGet ==
    /\ wpc = "drain"
    /\ IF q = << >>
       THEN /\ wpc' = IF drainBatch # << >> THEN "spill_drain_last" ELSE drainRet
            /\ UNCHANGED << q, drainBatch >>
       ELSE /\ q' = Tail(q)
            /\ drainBatch' = IF IsRow(Head(q)) THEN Append(drainBatch, Head(q)) ELSE drainBatch
            /\ wpc' = IF Len(drainBatch') >= BatchSize THEN "spill_drain" ELSE "drain"
    /\ UNCHANGED << conn, db_unavailable, draining_cache, batch, ids, backoff,
                    drainRet, remaining >>
    /\ WorkerQuiet /\ NoSpill /\ NoCommit

\* _drain_queue_to_cache: self._write_to_cache(batch) of a full chunk (line 636)
W_SpillDrain ==
    /\ wpc = "spill_drain"
    /\ Spill(drainBatch, FALSE)
    /\ drainBatch' = << >>
    /\ wpc' = "drain"
    /\ UNCHANGED << conn, db_unavailable, draining_cache, batch, ids, backoff,
                    drainRet, remaining, q >>
    /\ WorkerQuiet /\ NoCommit

\* _drain_queue_to_cache: self._write_to_cache(batch) of the last chunk (line 641)
W_SpillDrainLast ==
    /\ wpc = "spill_drain_last"
    /\ Spill(drainBatch, FALSE)
    /\ drainBatch' = << >>
    /\ wpc' = drainRet
    /\ UNCHANGED << conn, db_unavailable, draining_cache, batch, ids, backoff,
                    drainRet, remaining, q >>
    /\ WorkerQuiet /\ NoCommit

\* _worker: connect when not connected (lines 514-519); a refused connection
\* raises into the handler.
W_Connect ==
    /\ wpc = "connect"
    /\ IF conn
       THEN wpc' = "cachecheck" /\ UNCHANGED << conn, backoff, db_unavailable >>
       ELSE IF dbUp
            THEN /\ conn' = TRUE
                 /\ backoff' = BackoffInit
                 /\ db_unavailable' = FALSE
                 /\ wpc' = "cachecheck"
            ELSE wpc' = "fail" /\ UNCHANGED << conn, backoff, db_unavailable >>
    /\ UNCHANGED << draining_cache, batch, ids, drainBatch, drainRet, remaining, q >>
    /\ WorkerQuiet /\ NoSpill /\ NoCommit

\* close() + delete_file() + DiskCache(...) once the drain found nothing
\* (lines 551-559)
ResetCache(dc) == NewDiskCache

\* _worker: is_empty(), then read_batch (lines 522-537) or the reset of the
\* drained store (lines 550-559).  SQLite calls on a closed store raise.
W_CacheCheck ==
    /\ wpc = "cachecheck"
    /\ IF disk_cache.closed
       THEN wpc' = "fail" /\ UNCHANGED << draining_cache, ids, batch, disk_cache >>
       ELSE IF IsEmpty(disk_cache)
            THEN wpc' = "qget" /\ UNCHANGED << draining_cache, ids, batch, disk_cache >>
            ELSE LET r == ReadBatch(disk_cache, BatchSize)
                 IN  /\ ids' = r.ids
                     /\ batch' = r.rows
                     /\ IF r.rows # << >>
                        THEN /\ draining_cache' = TRUE
                             /\ wpc' = "cachecommit"
                             /\ UNCHANGED disk_cache
                        ELSE /\ draining_cache' = FALSE
                             /\ disk_cache' = ResetCache(disk_cache)
                             /\ wpc' = "qget"
    /\ UNCHANGED << conn, db_unavailable, backoff, drainBatch, drainRet, remaining, q,
                    count_cached, count_dropped, droppedRows, dcLog >>
    /\ WorkerQuiet /\ NoCommit

\* The SQL store after execute_values + commit of rows b
SqlCommit(store, b) == store \o b

\* _worker: execute_values + commit of the batch read from the spill store
\* (lines 539-540)
W_CacheCommit ==
    /\ wpc = "cachecommit"
    /\ IF dbUp
       THEN committed' = SqlCommit(committed, batch) /\ wpc' = "cachedelete"
       ELSE wpc' = "fail" /\ UNCHANGED committed
    /\ UNCHANGED << conn, db_unavailable, draining_cache, batch, ids, backoff,
                    drainBatch, drainRet, remaining, q, memCommitted, count_written,
                    count_cache_recovered >>
    /\ WorkerQuiet /\ NoSpill

\* _worker: delete_batch(ids) and the counters, then `continue` (lines 541-548)
W_CacheDelete ==
    /\ wpc = "cachedelete"
    /\ IF disk_cache.closed
       THEN wpc' = "fail" /\ UNCHANGED << disk_cache, count_written, count_cache_recovered >>
       ELSE /\ disk_cache' = DeleteBatch(disk_cache, ids)
            /\ count_written' = count_written + Len(batch)
            /\ count_cache_recovered' = count_cache_recovered + Len(batch)
            /\ wpc' = "loop"
    /\ UNCHANGED << conn, db_unavailable, draining_cache, batch, ids, backoff,
                    drainBatch, drainRet, remaining, q, committed, memCommitted,
                    count_cached, count_dropped, droppedRows, dcLog >>
    /\ WorkerQuiet

\* _worker: batch = [] and q.get(timeout=flush_interval) (lines 562-568)
W_QGet ==
    /\ wpc = "qget"
    /\ IF q = << >>
       THEN batch' = << >> /\ UNCHANGED q
       ELSE /\ q' = Tail(q)
            /\ batch' = IF IsRow(Head(q)) THEN << Head(q) >> ELSE << >>
    /\ wpc' = "qmore"
    /\ UNCHANGED << conn, db_unavailable, draining_cache, ids, backoff, drainBatch,
                    drainRet, remaining >>
    /\ WorkerQuiet /\ NoSpill /\ NoCommit

\* _worker: one turn of `while len(batch) < self.batch_size` (lines 570-576)
W_QMore ==
    /\ wpc = "qmore"
    /\ IF Len(batch) < BatchSize /\ q # << >>
       THEN /\ q' = Tail(q)
            /\ batch' = IF IsRow(Head(q)) THEN Append(batch, Head(q)) ELSE batch
            /\ wpc' = "qmore"
       ELSE wpc' = "commit" /\ UNCHANGED << q, batch >>
    /\ UNCHANGED << conn, db_unavailable, draining_cache, ids, backoff, drainBatch,
                    drainRet, remaining >>
    /\ WorkerQuiet /\ NoSpill /\ NoCommit

\* _worker: the empty commit (lines 578-580) or execute_values + commit of
\* the in-memory batch (lines 582-584)
W_Commit ==
    /\ wpc = "commit"
    /\ IF dbUp
       THEN /\ committed' = SqlCommit(committed, batch)
            /\ memCommitted' = memCommitted \cup Range(batch)
            /\ count_written' = count_written + Len(batch)
            /\ wpc' = "loop"
       ELSE wpc' = "fail" /\ UNCHANGED << committed, memCommitted, count_written >>
    /\ UNCHANGED << conn, db_unavailable, draining_cache, batch, ids, backoff,
                    drainBatch, drainRet, remaining, q, count_cache_recovered >>
    /\ WorkerQuiet /\ NoSpill

\* _worker: `except Exception` up to the spill of the pending batch
\* (lines 586-596)
W_Fail ==
    /\ wpc = "fail"
    /\ conn' = FALSE
    /\ db_unavailable' = TRUE
    /\ IF batch # << >>
       THEN wpc' = "spill_fail" /\ UNCHANGED << drainBatch, drainRet >>
       ELSE wpc' = "drain" /\ drainBatch' = << >> /\ drainRet' = "sleep"
    /\ UNCHANGED << draining_cache, batch, ids, backoff, remaining, q >>
    /\ WorkerQuiet /\ NoSpill /\ NoCommit

\* _worker: self._write_to_cache(batch); batch = [] (lines 597-598)
W_SpillFail ==
    /\ wpc = "spill_fail"
    /\ Spill(batch, FALSE)
    /\ batch' = << >>
    /\ wpc' = "drain" /\ drainBatch' = << >> /\ drainRet' = "sleep"
    /\ UNCHANGED << conn, db_unavailable, draining_cache, ids, backoff, remaining, q >>
    /\ WorkerQuiet /\ NoCommit

\* The doubling without the cap.
NextBackoffUncapped(b) == 2 * b

\* backoff = min(backoff * 2.0, 10.0)
NextBackoff(b) == Min(2 * b, BackoffCap)

\* _worker: time.sleep(backoff) and the doubling (lines 603-604)
W_Sleep ==
    /\ wpc = "sleep"
    /\ backoff' = NextBackoff(backoff)
    /\ wpc' = "loop"
    /\ UNCHANGED << conn, db_unavailable, draining_cache, batch, ids, drainBatch,
                    drainRet, remaining, q >>
    /\ WorkerQuiet /\ NoSpill /\ NoCommit

\* _shutdown_flush: one q.get_nowait() of its loop (lines 663-670); on Empty
\* with nothing collected it closes the SQL connection and returns (672-674).
W_SfGet ==
    /\ wpc = "sf_get"
    /\ IF q = << >>
       THEN /\ IF remaining = << >>
               THEN wpc' = "done" /\ conn' = FALSE
               ELSE wpc' = "sf_commit" /\ UNCHANGED conn
            /\ UNCHANGED << q, remaining >>
       ELSE /\ q' = Tail(q)
            /\ remaining' = IF IsRow(Head(q)) THEN Append(remaining, Head(q)) ELSE remaining
            /\ wpc' = "sf_get"
            /\ UNCHANGED conn
    /\ UNCHANGED << db_unavailable, draining_cache, batch, ids, backoff, drainBatch,
                    drainRet >>
    /\ WorkerQuiet /\ NoSpill /\ NoCommit

\* _shutdown_flush: "Try PostgreSQL first" (lines 677-687)
W_SfCommit ==
    /\ wpc = "sf_commit"
    /\ conn' = FALSE
    /\ IF conn /\ dbUp
       THEN /\ committed' = SqlCommit(committed, remaining)
            /\ memCommitted' = memCommitted \cup Range(remaining)
            /\ count_written' = count_written + Len(remaining)
            /\ remaining' = << >>
            /\ wpc' = "done"
       ELSE /\ wpc' = "spill_shutdown"
            /\ UNCHANGED << committed, memCommitted, count_written, remaining >>
    /\ UNCHANGED << db_unavailable, draining_cache, batch, ids, backoff, drainBatch,
                    drainRet, q, count_cache_recovered >>
    /\ WorkerQuiet /\ NoSpill

\* _shutdown_flush: "Fall back to disk cache", then self._disk_cache.close()
\* (lines 690-692)
W_SpillShutdown ==
    /\ wpc = "spill_shutdown"
    /\ Spill(remaining, TRUE)
    /\ remaining' = << >>
    /\ wpc' = "done"
    /\ UNCHANGED << conn, db_unavailable, draining_cache, batch, ids, backoff,
                    drainBatch, drainRet, q >>
    /\ WorkerQuiet /\ NoCommit

\* What an owner step leaves alone besides its own variables.
OwnerQuiet == UNCHANGED << workerVars, envVars, attempts, last_bucket, count_enqueued, bridgeVars >>

\* close(): self._alive = False; self.q.put_nowait(()) unless the queue is
\* full (lines 443-447)
C_Close ==
    /\ opc = "run"
    /\ alive' = FALSE
    /\ q' = IF Len(q) < QueueMax THEN Append(q, Sentinel) ELSE q
    /\ closeMark' = attempts
    /\ opc' = "join"
    /\ UNCHANGED emBatch
    /\ OwnerQuiet /\ NoSpill /\ NoCommit

\* close(): self._thread.join(timeout=5.0) returns because the worker
\* finished (line 448)
C_JoinDone ==
    /\ opc = "join"
    /\ wpc = "done"
    /\ opc' = "check"
    /\ UNCHANGED << alive, emBatch, closeMark, q >>
    /\ OwnerQuiet /\ NoSpill /\ NoCommit

\* Where the worker can stay for longer than the join bound: inside a call to
\* the SQL store (connect has no timeout, a statement may run for 10 s) and in
\* time.sleep(backoff) once the back-off exceeds the bound.
WorkerBlocked ==
    \/ wpc = "connect" /\ ~conn
    \/ wpc \in {"cachecommit", "commit"}
    \/ wpc = "sf_commit" /\ conn
    \/ wpc = "sleep" /\ backoff > JoinTimeout

\* close(): self._thread.join(timeout=5.0) returns after 5 s with the worker
\* still running (line 448)
C_JoinTimeout ==
    /\ opc = "join"
    /\ WorkerBlocked
    /\ opc' = "check"
    /\ UNCHANGED << alive, emBatch, closeMark, q >>
    /\ OwnerQuiet /\ NoSpill /\ NoCommit

\* close(): `if not self.q.empty()` (lines 451-452)
C_Check ==
    /\ opc = "check"
    /\ opc' = IF q # << >> THEN "em_get" ELSE "closecache"
    /\ emBatch' = << >>
    /\ UNCHANGED << alive, closeMark, q >>
    /\ OwnerQuiet /\ NoSpill /\ NoCommit

\* _emergency_flush_to_disk: one q.get_nowait() of its loop (lines 698-708)
C_EmGet ==
    /\ opc = "em_get"
    /\ IF q = << >>
       THEN /\ opc' = IF emBatch # << >> THEN "em_spill_last" ELSE "closecache"
            /\ UNCHANGED << q, emBatch >>
       ELSE /\ q' = Tail(q)
            /\ emBatch' = IF IsRow(Head(q)) THEN Append(emBatch, Head(q)) ELSE emBatch
            /\ opc' = IF Len(emBatch') >= BatchSize THEN "em_spill" ELSE "em_get"
    /\ UNCHANGED << alive, closeMark >>
    /\ OwnerQuiet /\ NoSpill /\ NoCommit

\* _emergency_flush_to_disk: self._write_to_cache(batch) of a full chunk (line 706)
C_EmSpill ==
    /\ opc = "em_spill"
    /\ Spill(emBatch, FALSE)
    /\ emBatch' = << >>
    /\ opc' = "em_get"
    /\ UNCHANGED << alive, closeMark, q >>
    /\ OwnerQuiet /\ NoCommit

\* _emergency_flush_to_disk: self._write_to_cache(batch) of the last chunk (line 711)
C_EmSpillLast ==
    /\ opc = "em_spill_last"
    /\ Spill(emBatch, FALSE)
    /\ emBatch' = << >>
    /\ opc' = "closecache"
    /\ UNCHANGED << alive, closeMark, q >>
    /\ OwnerQuiet /\ NoCommit

\* close(): close the spill store if still open, and return (lines 460-467)
C_CloseCache ==
    /\ opc = "closecache"
    /\ disk_cache' = CloseCache(disk_cache)
    /\ opc' = "closed"
    /\ UNCHANGED << alive, emBatch, closeMark, q, count_cached, count_dropped,
                    droppedRows, dcLog >>
    /\ OwnerQuiet /\ NoCommit

\* Environment: the SQL store becomes unreachable / reachable again.
DbFail ==
    /\ dbUp /\ dbFails < MaxDbFail
    /\ dbUp' = FALSE
    /\ dbFails' = dbFails + 1
    /\ UNCHANGED << q, workerVars, ownerVars, cacheVars, counterVars, committed, attempts,
                    droppedRows, memCommitted, last_bucket, bridgeVars >>

DbRecover ==
    /\ ~dbUp
    /\ dbUp' = TRUE
    /\ UNCHANGED << q, workerVars, ownerVars, cacheVars, counterVars, committed, attempts,
                    droppedRows, memCommitted, last_bucket, dbFails, bridgeVars >>

\* The worker thread inside `while self._alive`, and all of it.
WorkerLoop ==
    \/ W_LoopTest \/ W_Overflow \/ W_DrainGet \/ W_SpillDrain \/ W_SpillDrainLast
    \/ W_Connect \/ W_CacheCheck \/ W_CacheCommit \/ W_CacheDelete
    \/ W_QGet \/ W_QMore \/ W_Commit \/ W_Fail \/ W_SpillFail \/ W_Sleep

Worker == WorkerLoop \/ W_SfGet \/ W_SfCommit \/ W_SpillShutdown

\* close() when the worker finishes within the join bound, and all of it.
OwnerGraceful ==
    \/ C_Close \/ C_JoinDone \/ C_Check \/ C_EmGet \/ C_EmSpill \/ C_EmSpillLast
    \/ C_CloseCache

Owner == OwnerGraceful \/ C_JoinTimeout

Next == Enqueue \/ Worker \/ Owner \/ DbFail \/ DbRecover

Spec == Init /\ [][Next]_vars

\* The pipeline when the worker always finishes within close()'s join bound.
NextGraceful == Enqueue \/ Worker \/ OwnerGraceful \/ DbFail \/ DbRecover

SpecGraceful == Init /\ [][NextGraceful]_vars

\* The pipeline while the owner has not called close().
NextRun == Enqueue \/ WorkerLoop \/ DbFail \/ DbRecover

SpecRun == Init /\ [][NextRun]_vars

\* The same under the scheduler's guarantee that the worker thread keeps
\* running (q.get and time.sleep return, SQL calls return or time out).
SpecRunFair == SpecRun /\ WF_vars(WorkerLoop)

\* An outage: the SQL store is unreachable from the start and stays so, and
\* the owner does not call close().  The worker never gets past _connect.
InitOutage == Init /\ dbUp = FALSE

WorkerOutage ==
    \/ W_LoopTest \/ W_Overflow \/ W_DrainGet \/ W_SpillDrain \/ W_SpillDrainLast
    \/ W_Connect \/ W_Fail \/ W_Sleep

NextOutage == Enqueue \/ WorkerOutage

SpecOutage == InitOutage /\ [][NextOutage]_vars /\ WF_vars(WorkerOutage)

\* The spill store on its own, driven by any caller: appends of fresh entries
\* (entry k is the k-th one ever appended), reads with any limit, deletes of
\* the identifiers the last read returned.
dcVars == << disk_cache, ids, batch, dcLog >>
notDcVars == << q, alive, conn, db_unavailable, draining_cache, count_enqueued,
                count_written, count_dropped, count_cached, count_cache_recovered,
                wpc, backoff, drainBatch, drainRet, remaining, opc, emBatch, dbUp,
                dbFails, committed, attempts, droppedRows, memCommitted,
                last_bucket, closeMark, bridgeVars >>

DC_Write ==
    \E n \in 1..BatchSize :
        /\ Len(dcLog) + n <= MaxAppend
        /\ LET rows == [i \in 1..n |-> Len(dcLog) + i]
           IN  /\ disk_cache' = WriteBatch(disk_cache, rows)
               /\ dcLog' = dcLog \o AssignIds(disk_cache, rows)
        /\ UNCHANGED << ids, batch, notDcVars >>

DC_Read ==
    \E limit \in 1..(BatchSize + 1) :
        LET r == ReadBatch(disk_cache, limit)
        IN  /\ ids' = r.ids
            /\ batch' = r.rows
            /\ UNCHANGED << disk_cache, dcLog, notDcVars >>

DC_Delete ==
    /\ ids # << >>
    /\ disk_cache' = DeleteBatch(disk_cache, ids)
    /\ ids' = << >>
    /\ batch' = << >>
    /\ UNCHANGED << dcLog, notDcVars >>

NextDiskCache == DC_Write \/ DC_Read \/ DC_Delete

SpecDiskCache == Init /\ [][NextDiskCache]_vars

\* ============================================================== bridge
\* ------------------------------------------------------- bytes and words
\* b"\xF1": first byte of every GVRET request and response
F1 == 241
\* b"\xE7": the handshake byte
E7 == 231

Bytes == 0..255

\* s[from..] and s[..n] of a byte string (Python slices never raise)
Drop(s, n) == SubSeq(s, Min(n, Len(s)) + 1, Len(s))
Take(s, n) == SubSeq(s, 1, Min(n, Len(s)))

\* data.ljust(n, b"\x00")
LJust(s, n) == s \o [i \in 1..(IF n > Len(s) THEN n - Len(s) ELSE 0) |-> 0]

\* int.from_bytes(b, "little") of 4 bytes, as the halves [hi, lo]
FromBytesLE(b) == [lo |-> b[1] + 256 * b[2], hi |-> b[3] + 256 * b[4]]

\* w.to_bytes(4, "little")
ToBytesLE(w) == << w.lo % 256, w.lo \div 256, w.hi % 256, w.hi \div 256 >>

\* n.to_bytes(2, "little") of a 16-bit number
ToBytesLE2(n) == << n % 256, n \div 256 >>

\* w & 0x80000000 (CAN_EFF_FLAG, GVRET bit 31) is set
HasEff(w) == w.hi >= 32768

\* w & CAN_EFF_MASK (0x1FFFFFFF) and w & CAN_SFF_MASK (0x7FF)
MaskEff(w) == [hi |-> w.hi % 8192, lo |-> w.lo]
MaskSff(w) == [hi |-> 0, lo |-> w.lo % 2048]

\* w | 0x80000000
WithEff(w) == [hi |-> (w.hi % 32768) + 32768, lo |-> w.lo]

\* int(elapsed * 1_000_000) & 0xFFFFFFFF of a clock reading [top, hi, lo]
\* (top: the bits above 2^32)
Mask32(t) == [hi |-> t.hi, lo |-> t.lo]

\* CAN_FD_DLC_LEN
CAN_FD_DLC_LEN == << 0, 1, 2, 3, 4, 5, 6, 7, 8, 12, 16, 20, 24, 32, 48, 64 >>

\* dlc_to_len(dlc, is_fd)
DlcToLen(dlc, is_fd) ==
    IF dlc <= 8 THEN dlc
    ELSE IF is_fd /\ dlc <= 15 THEN CAN_FD_DLC_LEN[dlc + 1]
    ELSE 8

\* len_to_dlc that returns the last DLC whose length does not exceed the
\* length (rounds down instead of up).
LenToDlcFloor(length) ==
    IF length <= 8 THEN length
    ELSE CHOOSE d \in 0..15 :
             /\ CAN_FD_DLC_LEN[d + 1] <= length
             /\ \A e \in (d + 1)..15 : CAN_FD_DLC_LEN[e + 1] > length

\* len_to_dlc(length): the first index of CAN_FD_DLC_LEN whose length fits
LenToDlc(length) ==
    IF length <= 8 THEN length
    ELSE IF \E d \in 0..15 : CAN_FD_DLC_LEN[d + 1] >= length
         THEN CHOOSE d \in 0..15 :
                  /\ CAN_FD_DLC_LEN[d + 1] >= length
                  /\ \A e \in 0..(d - 1) : CAN_FD_DLC_LEN[e + 1] < length
         ELSE 15

\* ------------------------------------------------------------ GVRETClient
\* GVRETClient.__init__: a session starts in ascii state with an empty buffer.
NewClient == [binary |-> FALSE, buf |-> << >>, alive |-> TRUE, out |-> << >>]

\* reply_keepalive: b"\xF1\x09\xDE\xAD"
ReplyKeepalive == << F1, 9, 222, 173 >>

\* reply_dev_info with the build number written big-endian.
ReplyDevInfoBE == << F1, 7, 1, 144, 1, 0, 0, 0 >>

\* reply_dev_info: F1 07, build 400 as u16 little-endian, then
\* eeprom_ver 1, file_type 0, auto_start 0, singlewire 0
ReplyDevInfo == << F1, 7 >> \o ToBytesLE2(400) \o << 1, 0, 0, 0 >>

\* reply_num_buses: F1 0C and bus_count & 0xFF
ReplyNumBuses(bus_count) == << F1, 12, bus_count % 256 >>

\* reply_timebase at clock reading t
ReplyTimebase(t) == << F1, 1 >> \o ToBytesLE(Mask32(t))

\* reply_canbus_params with bus_count n and the tuple bus_speeds: the message,
\* or raised when bus_speeds[1] does not exist (IndexError).
ReplyCanbusParams(n, bus_speeds) ==
    LET zero == [hi |-> 0, lo |-> 0]
        can0_flags == IF n >= 1 THEN 1 ELSE 0
        can1_flags == IF n >= 2 THEN 1 ELSE 0
    IN  IF (n >= 1 /\ Len(bus_speeds) < 1) \/ (n >= 2 /\ Len(bus_speeds) < 2)
        THEN [raised |-> TRUE, msg |-> << >>]
        ELSE [raised |-> FALSE,
              msg |-> << F1, 6 >>
                      \o << can0_flags >> \o ToBytesLE(IF n >= 1 THEN bus_speeds[1] ELSE zero)
                      \o << can1_flags >> \o ToBytesLE(IF n >= 2 THEN bus_speeds[2] ELSE zero)]

\* self.buf.find(b"\xE7\xE7"): the 1-based position of the first pair, 0 if none
FindPair(buf) ==
    IF \E i \in 1..(Len(buf) - 1) : buf[i] = E7 /\ buf[i + 1] = E7
    THEN CHOOSE i \in 1..(Len(buf) - 1) :
             /\ buf[i] = E7 /\ buf[i + 1] = E7
             /\ \A j \in 1..(i - 1) : ~(buf[j] = E7 /\ buf[j + 1] = E7)
    ELSE 0

\* _rx_loop, "handshake": while the buffer holds a pair E7 E7, delete
\* everything up to and including it and set binary (lines 877-883).
RECURSIVE Handshake(_, _)
Handshake(buf, binary) ==
    LET idx == FindPair(buf)
    IN  IF idx = 0 THEN [buf |-> buf, binary |-> binary]
        ELSE Handshake(Drop(buf, idx + 1), TRUE)

\* _rx_loop, "Resync": drop leading bytes other than F1 (lines 888-889)
RECURSIVE Resync(_)
Resync(buf) ==
    IF buf # << >> /\ buf[1] # F1 THEN Resync(Tail(buf)) ELSE buf

\* _try_consume_send_frame reading the identifier from bytes 1..4 of the
\* request (one byte early).
TryConsumeSendFrameShifted(buf) ==
    IF Len(buf) < 8 \/ ~(buf[1] = F1 /\ buf[2] = 0) THEN [done |-> FALSE]
    ELSE LET need == 8 + buf[8]
         IN  IF Len(buf) < need THEN [done |-> FALSE]
             ELSE LET can_id_le == FromBytesLE(SubSeq(buf, 2, 5))
                      dlc == Min(buf[8], 8)
                      is_eff == HasEff(can_id_le)
                      arb == IF is_eff THEN MaskEff(can_id_le) ELSE MaskSff(can_id_le)
                  IN  [done |-> TRUE,
                       buf |-> Drop(buf, need),
                       call |-> [kind |-> "tx", bus |-> buf[7],
                                 can_id |-> IF is_eff THEN WithEff(arb) ELSE arb,
                                 data |-> SubSeq(buf, 9, 8 + dlc)]]

\* _try_consume_send_frame on a buffer that starts with F1 00: not done when
\* fewer than 8 or fewer than 8 + len bytes are buffered; else the buffer
\* without the request and the call tx_func(bus, can_id_sc, data).
TryConsumeSendFrame(buf) ==
    IF Len(buf) < 8 \/ ~(buf[1] = F1 /\ buf[2] = 0) THEN [done |-> FALSE]
    ELSE LET need == 8 + buf[8]
         IN  IF Len(buf) < need THEN [done |-> FALSE]
             ELSE LET can_id_le == FromBytesLE(SubSeq(buf, 3, 6))
                      dlc == Min(buf[8], 8)
                      is_eff == HasEff(can_id_le)
                      arb == IF is_eff THEN MaskEff(can_id_le) ELSE MaskSff(can_id_le)
                  IN  [done |-> TRUE,
                       buf |-> Drop(buf, need),
                       call |-> [kind |-> "tx", bus |-> buf[7],
                                 can_id |-> IF is_eff THEN WithEff(arb) ELSE arb,
                                 data |-> SubSeq(buf, 9, 8 + dlc)]]

\* One iteration that answers an unknown opcode like a keepalive request.
ParseIterAnswersUnknown(buf0) ==
    LET buf == Resync(buf0)
    IN  IF Len(buf) < 2 THEN [stop |-> TRUE, buf |-> buf, ev |-> << >>]
        ELSE LET cmd == buf[2]
             IN  IF cmd = 0
                 THEN LET r == TryConsumeSendFrame(buf)
                      IN  IF r.done THEN [stop |-> FALSE, buf |-> r.buf, ev |-> << r.call >>]
                          ELSE [stop |-> TRUE, buf |-> buf, ev |-> << >>]
                 ELSE [stop |-> FALSE, buf |-> Drop(buf, 2),
                       ev |-> CASE cmd = 7 -> << [kind |-> "reply", msg |-> ReplyDevInfo] >>
                                [] cmd = 6 -> << [kind |-> "params"] >>
                                [] cmd = 12 -> << [kind |-> "numbuses"] >>
                                [] cmd = 1 -> << [kind |-> "timebase"] >>
                                [] OTHER -> << [kind |-> "reply", msg |-> ReplyKeepalive] >>]

\* One iteration of the loop "parse binary commands" of _rx_loop (lines
\* 885-924) on a session in binary state: the resync, then either a stop
\* (break: fewer than two bytes, or an incomplete BUILD_FRAME request) or one
\* request consumed, with the call it makes (none for an unknown opcode).
ParseIter(buf0) ==
    LET buf == Resync(buf0)
    IN  IF Len(buf) < 2 THEN [stop |-> TRUE, buf |-> buf, ev |-> << >>]
        ELSE LET cmd == buf[2]
             IN  IF cmd = 0
                 THEN LET r == TryConsumeSendFrame(buf)
                      IN  IF r.done THEN [stop |-> FALSE, buf |-> r.buf, ev |-> << r.call >>]
                          ELSE [stop |-> TRUE, buf |-> buf, ev |-> << >>]
                 ELSE [stop |-> FALSE, buf |-> Drop(buf, 2),
                       ev |-> CASE cmd = 7 -> << [kind |-> "reply", msg |-> ReplyDevInfo] >>
                                [] cmd = 6 -> << [kind |-> "params"] >>
                                [] cmd = 12 -> << [kind |-> "numbuses"] >>
                                [] cmd = 1 -> << [kind |-> "timebase"] >>
                                [] cmd = 9 -> << [kind |-> "reply", msg |-> ReplyKeepalive] >>
                                [] OTHER -> << >>]

\* The whole loop: the buffer that is left, and the calls made in order
\* (reply_* calls and tx_func calls).
RECURSIVE ParseLoop(_, _)
ParseLoop(buf0, ev) ==
    LET r == ParseIter(buf0)
    IN  IF r.stop THEN [buf |-> r.buf, ev |-> ev]
        ELSE ParseLoop(r.buf, ev \o r.ev)

\* GVRETClient.send_frame(can_id, bus, data, is_fd) at clock reading t: the
\* frame push, or nothing for a session in ascii state.
SendFrame(binary, can_id, bus, data, is_fd, t) ==
    IF ~binary THEN << >>
    ELSE LET data_len == IF is_fd THEN Min(Len(data), 64) ELSE Min(Len(data), 8)
             dlc == IF is_fd THEN LenToDlc(data_len) ELSE data_len
             is_eff == HasEff(can_id)
             arb_id == IF is_eff THEN MaskEff(can_id) ELSE MaskSff(can_id)
             gvret_id == IF is_eff THEN WithEff(arb_id) ELSE arb_id
             bus_and_dlc == (bus % 16) * 16 + (dlc % 16)
         IN  << F1, 0 >> \o ToBytesLE(Mask32(t)) \o ToBytesLE(gvret_id)
             \o << bus_and_dlc >> \o Take(data, data_len) \o << 0 >>

\* ----------------------------------------------------------- CanTcpServer
\* self.bus_count = self.bus_offset + len(self.can_socks)
BusCount(c) == c.bus_offset + c.nsocks

\* self.bus_speeds: one detected nominal bit rate per interface
\* (500000 = 0x0007A120 for the first, 250000 = 0x0003D090 for the others)
BusSpeeds(c) ==
    [i \in 1..c.nsocks |-> IF i = 1 THEN [hi |-> 7, lo |-> 41248] ELSE [hi |-> 3, lo |-> 53392]]

\* struct.pack("<IB3x8s", can_id, dlc, data[:8].ljust(8, b"\x00"))
PackClassic(can_id, dlc, data) ==
    ToBytesLE(can_id) \o << dlc, 0, 0, 0 >> \o LJust(Take(data, 8), 8)

\* struct.pack("<IBBBB64s", can_id, data_len, 0, 0, 0, data.ljust(64, b"\x00"))
PackFd(can_id, data_len, data) ==
    ToBytesLE(can_id) \o << data_len, 0, 0, 0 >> \o Take(LJust(data, 64), 64)

\* _tx_can that enqueues the "tx" entry before it writes to the Bus Socket.
TxCanEnqueueFirst(c, tx, ing, bus, can_id, data, is_fd, sendOk) ==
    LET sock_idx == bus - c.bus_offset
        dlc == Min(Len(data), 8)
        frame == PackClassic(can_id, dlc, data)
        ing2 == IF c.pg
                THEN Append(ing, [can_id |-> can_id, dlc |-> dlc, data |-> data, bus |-> bus,
                                  dir |-> "tx", is_fd |-> FALSE])
                ELSE ing
    IN  IF ~(0 <= sock_idx /\ sock_idx < c.nsocks)
        THEN [tx |-> tx, ing |-> ing, raised |-> FALSE]
        ELSE IF ~sendOk THEN [tx |-> tx, ing |-> ing2, raised |-> TRUE]
        ELSE [tx |-> [tx EXCEPT ![sock_idx] = Append(@, frame)], ing |-> ing2, raised |-> FALSE]

\* CanTcpServer._tx_can(bus, can_id, data, is_fd) on the sockets tx and the
\* enqueue log ing; sendOk: the write to the Bus Socket succeeds (else it
\* raises out of _tx_can).
TxCan(c, tx, ing, bus, can_id, data, is_fd, sendOk) ==
    LET sock_idx == bus - c.bus_offset
        fd == is_fd /\ c.can_fd
        data_len == IF fd THEN Min(Len(data), 64) ELSE Len(data)
        dlc == IF fd THEN LenToDlc(data_len) ELSE Min(data_len, 8)
        frame == IF fd THEN PackFd(can_id, data_len, data) ELSE PackClassic(can_id, dlc, data)
    IN  IF ~(0 <= sock_idx /\ sock_idx < c.nsocks)
        THEN [tx |-> tx, ing |-> ing, raised |-> FALSE]
        ELSE IF ~sendOk THEN [tx |-> tx, ing |-> ing, raised |-> TRUE]
        ELSE [tx |-> [tx EXCEPT ![sock_idx] = Append(@, frame)],
              ing |-> IF c.pg
                      THEN Append(ing, [can_id |-> can_id, dlc |-> dlc,
                                        data |-> Take(data, data_len), bus |-> bus,
                                        dir |-> "tx", is_fd |-> fd])
                      ELSE ing,
              raised |-> FALSE]

\* GVRETClient._send(b) on a session with output out: sendall, and close() when
\* it raises (a closed connection raises too).
Send(st, msg, writeOk) ==
    IF st.alive /\ writeOk THEN [st EXCEPT !.out = Append(@, msg)]
    ELSE [st EXCEPT !.alive = FALSE]

\* The calls of one parser pass carried out in order, up to the first one
\* that raises, at clock reading t.
\* st = [out, alive, tx, ing, calls, raised].
RECURSIVE Perform(_, _, _, _, _, _)
Perform(ev, st, c, t, writeOk, busOk) ==
    IF ev = << >> \/ st.raised THEN st
    ELSE LET e == Head(ev)
             st2 ==
               CASE e.kind = "reply" -> Send(st, e.msg, writeOk)
                 [] e.kind = "timebase" -> Send(st, ReplyTimebase(t), writeOk)
                 [] e.kind = "numbuses" -> Send(st, ReplyNumBuses(BusCount(c)), writeOk)
                 [] e.kind = "params" ->
                      LET r == ReplyCanbusParams(BusCount(c), BusSpeeds(c))
                      IN  IF r.raised THEN [st EXCEPT !.raised = TRUE]
                          ELSE Send(st, r.msg, writeOk)
                 [] e.kind = "tx" ->
                      LET r == TxCan(c, st.tx, st.ing, e.bus, e.can_id, e.data, FALSE, busOk)
                      IN  [st EXCEPT !.tx = r.tx, !.ing = r.ing, !.raised = r.raised,
                                     !.calls = Append(@, [bus |-> e.bus, can_id |-> e.can_id,
                                                          data |-> e.data])]
         IN  Perform(Tail(ev), st2, c, t, writeOk, busOk)

\* What the bridge leaves alone: the whole ingest pipeline.
writerVars == << q, alive, conn, db_unavailable, draining_cache, disk_cache,
                 count_enqueued, count_written, count_dropped, count_cached,
                 count_cache_recovered, wpc, batch, ids, backoff, drainBatch, drainRet,
                 remaining, opc, emBatch, dbUp, dbFails, committed, attempts,
                 droppedRows, memCommitted, dcLog, last_bucket, closeMark >>

\* Readings of time.monotonic() - t0 in microseconds, as [top, hi, lo] with
\* top the part above 2^32: one below 2^32 and one above it.
ClockValues == { [top |-> 0, hi |-> 1, lo |-> 2], [top |-> 3, hi |-> 65535, lo |-> 513] }

\* The bytes session c has received so far, and those still to come.
Received(c) == SubSeq(wire[c].data, 1, wire[c].at)
Pending(c) == SubSeq(wire[c].data, wire[c].at + 1, Len(wire[c].data))

\* The pass reads the clock (reply_timebase).
UsesClock(ev) == \E i \in 1..Len(ev) : ev[i].kind = "timebase"
\* The pass writes to the client connection / to a Bus Socket.
Replies(ev) == \E i \in 1..Len(ev) : ev[i].kind # "tx"
Transmits(ev) == \E i \in 1..Len(ev) : ev[i].kind = "tx"

\* One pass of GVRETClient._rx_loop for session c: recv() returns the next n
\* bytes, the handshake scan runs, then the request parser if the session is
\* binary; an exception other than socket.timeout ends the loop, and the
\* finally clause closes the session (lines 869-929).
S_Recv ==
    \E c \in gvret_clients :
    \E n \in 1..Len(Pending(c)) :
        /\ gv[c].alive
        /\ LET chunk == Take(Pending(c), n)
               hs == Handshake(gv[c].buf \o chunk, gv[c].binary)
               pr == IF hs.binary THEN ParseLoop(hs.buf, << >>)
                     ELSE [buf |-> hs.buf, ev |-> << >>]
           IN  \E t \in IF UsesClock(pr.ev) THEN ClockValues ELSE { wire[c].now },
                  writeOk \in IF Replies(pr.ev) THEN BOOLEAN ELSE { TRUE },
                  busOk \in IF Transmits(pr.ev) THEN BOOLEAN ELSE { TRUE } :
               LET st == Perform(pr.ev, [out |-> gv[c].out, alive |-> TRUE, tx |-> can_tx,
                                         ing |-> ingest, calls |-> tx_calls,
                                         raised |-> FALSE],
                                 cfg, t, writeOk, busOk)
               IN  /\ gv' = [gv EXCEPT ![c] = [binary |-> hs.binary, buf |-> pr.buf,
                                               alive |-> st.alive /\ ~st.raised,
                                               out |-> st.out]]
                   /\ can_tx' = st.tx
                   /\ ingest' = st.ing
                   /\ tx_calls' = st.calls
                   /\ wire' = [wire EXCEPT ![c].at = @ + n, ![c].now = t,
                                            ![c].sock = IF st.alive THEN @ ELSE "wfail"]
        /\ UNCHANGED << cfg, gvret_clients, bus_rx, running, calc, snd, reg, writerVars >>

\* _rx_loop: recv() returns b"" after the peer has sent everything and closed
\* (lines 872-873), then close()
S_Eof ==
    \E c \in gvret_clients :
        /\ gv[c].alive
        /\ Pending(c) = << >>
        /\ gv' = [gv EXCEPT ![c].alive = FALSE]
        /\ wire' = [wire EXCEPT ![c].sock = "eof"]
        /\ UNCHANGED << cfg, gvret_clients, can_tx, ingest, tx_calls, bus_rx, running, calc,
                       snd, reg, writerVars >>

\* _rx_loop: recv() raises (connection reset), then close()
S_RecvFail ==
    \E c \in gvret_clients :
        /\ gv[c].alive
        /\ gv' = [gv EXCEPT ![c].alive = FALSE]
        /\ wire' = [wire EXCEPT ![c].sock = "reset"]
        /\ UNCHANGED << cfg, gvret_clients, can_tx, ingest, tx_calls, bus_rx, running, calc,
                       snd, reg, writerVars >>

\* ------------------------------------------------- one session, any input
\* All byte strings over alphabet A of length at most n.
RECURSIVE Strings(_, _)
Strings(A, n) ==
    IF n = 0 THEN { << >> }
    ELSE LET shorter == Strings(A, n - 1)
         IN  shorter \cup { Append(x, a) : x \in { y \in shorter : Len(y) = n - 1 }, a \in A }

\* Handshake-level input: the handshake byte, the sync byte, the keepalive
\* opcode and a byte that is none of them (0x41).
HsAlphabet == { E7, F1, 9, 65 }
HsInputs == Strings(HsAlphabet, MaxHsLen)

\* Fixed-size requests (F1 41 is not an opcode), up to MaxReqs in a row after
\* the handshake.
FixedRequests == { << F1, 1 >>, << F1, 6 >>, << F1, 7 >>, << F1, 9 >>, << F1, 12 >>, << F1, 65 >> }

RECURSIVE RequestRuns(_)
RequestRuns(n) ==
    IF n = 0 THEN { << >> }
    ELSE LET shorter == RequestRuns(n - 1)
         IN  shorter \cup { x \o r : x \in shorter, r \in FixedRequests }

RequestInputs == { << E7, E7 >> \o x : x \in RequestRuns(MaxReqs) }

\* BUILD_FRAME requests after the handshake: F1 00, identifier bytes, bus
\* byte, length byte, and the payload bytes that have been sent (possibly
\* fewer or more than the length byte announces).
FramePayload == << 65, 66, 67, 68, 69, 70, 71, 72, 73, 74 >>
FrameIds == { << 128, 0, 0, 0 >>, << 0, 0, 0, 128 >>, << 255, 255, 255, 255 >>,
              << 255, 255, 0, 0 >>, << E7, E7, 0, 0 >> }

\* << length byte, bytes sent after the header >>: an empty frame followed by
\* a keepalive request, one byte followed by three more bytes, a frame whose
\* payload has not all arrived, and a length byte above 8.
FrameShapes == { << 0, << F1, 9 >> >>, << 1, Take(FramePayload, 4) >>,
                 << 2, Take(FramePayload, 1) >>, << 9, FramePayload >> }
BuildFrameInputs ==
    { << E7, E7, F1, 0 >> \o id \o << bus, sh[1] >> \o sh[2] :
        id \in FrameIds, bus \in 0..(MaxOffset + MaxSocks), sh \in FrameShapes }

SessionInputs == RequestInputs \cup BuildFrameInputs

\* Configurations: any bus_offset and any non-empty interface list, ingest
\* enabled or not.
Configs ==
    { [bus_offset |-> o, nsocks |-> n, pg |-> p, can_fd |-> f, dir |-> d] :
        o \in 0..MaxOffset, n \in 1..MaxSocks, p \in BOOLEAN, f \in BOOLEAN,
        d \in { "rx", "tx" } }

\* A connection just accepted: the session is new, the peer will send data.
NewWire(data) == [data |-> data, at |-> 0, now |-> [top |-> 0, hi |-> 0, lo |-> 0], sock |-> "ok"]

\* CanTcpServer.__init__ and the first _accept: one session, which will be
\* sent some input.
InitAccepted(configs, inputs) ==
    /\ InitWriter
    /\ cfg \in configs
    /\ gvret_clients = { 1 }
    /\ gv = << NewClient >>
    /\ \E data \in inputs : wire = << NewWire(data) >>
    /\ can_tx = [i \in 0..(cfg.nsocks - 1) |-> << >>]
    /\ ingest = << >>
    /\ tx_calls = << >>
    /\ bus_rx = << >>
    /\ running = TRUE
    /\ calc = NoCalc
    /\ snd = NoSend
    /\ reg = NoReg

\* Requests of every kind under every configuration without CAN FD.
InitSession == InitAccepted({ c \in Configs : ~c.can_fd /\ c.dir = "rx" }, SessionInputs)

\* Fixed-size requests only.
InitRequests == InitAccepted({ c \in Configs : ~c.can_fd /\ c.dir = "rx" }, RequestInputs)

\* BUILD_FRAME requests only.
InitBuildFrame == InitAccepted({ c \in Configs : ~c.can_fd /\ c.dir = "rx" }, BuildFrameInputs)

\* Arbitrary bytes under the default configuration.
InitHandshake ==
    InitAccepted({ [bus_offset |-> 0, nsocks |-> 1, pg |-> TRUE, can_fd |-> FALSE, dir |-> "rx"] }, HsInputs)

NextSession == S_Recv \/ S_Eof \/ S_RecvFail

SpecSession == InitSession /\ [][NextSession]_vars

SpecRequests == InitRequests /\ [][NextSession]_vars

SpecBuildFrame == InitBuildFrame /\ [][NextSession]_vars

SpecHandshake == InitHandshake /\ [][NextSession]_vars

\* ------------------------------------------------------ the Bridge Core
\* What the peer of a session may send during a bridge run: a byte that
\* leaves it in ascii state, or the handshake.
BridgeInputs == { << 65 >>, << E7, E7 >> }

\* CanTcpServer._accept: a new session is registered under a new key.
B_Accept ==
    /\ running
    /\ Len(gv) < MaxClients
    /\ \E data \in BridgeInputs :
        /\ gvret_clients' = gvret_clients \cup { Len(gv) + 1 }
        /\ gv' = Append(gv, NewClient)
        /\ wire' = Append(wire, NewWire(data))
    /\ UNCHANGED << cfg, can_tx, ingest, tx_calls, bus_rx, running, calc, snd, reg, writerVars >>

\* CanTcpServer._accept raises: srv.accept() fails, or the peer has gone when
\* GVRETClient.__init__ calls conn.getpeername() (lines 1106, 797).  Nothing
\* in run() catches it (line 1175): the exception leaves the loop, and main()
\* logs it and exits (lines 1463-1465).  No session is registered.
B_AcceptFail ==
    /\ running
    /\ running' = FALSE
    /\ UNCHANGED << cfg, gvret_clients, gv, wire, can_tx, ingest, tx_calls, bus_rx, calc,
                    snd, reg, writerVars >>

\* struct can_frame (16 bytes) and struct canfd_frame (72 bytes) as a Bus
\* Socket delivers them: can_id, length, flags/padding, data padded with zeros.
CanFrame(can_id, dlc, data) == ToBytesLE(can_id) \o << dlc, 0, 0, 0 >> \o LJust(data, 8)
CanFdFrame(can_id, len, data) == ToBytesLE(can_id) \o << len, 0, 0, 0 >> \o LJust(data, 64)

\* Frames on the bus: a standard and an extended classic frame, and CAN FD
\* frames of 9 and 12 bytes (FD sockets only).
BusFrames(c) ==
    { CanFrame([hi |-> 0, lo |-> 291], 2, << 17, 34 >>),
      CanFrame([hi |-> 32768 + 6144, lo |-> 1], 8, << 1, 2, 3, 4, 5, 6, 7, 8 >>) }
    \cup IF c.can_fd
         THEN { CanFdFrame([hi |-> 0, lo |-> 291], 9, << 1, 2, 3, 4, 5, 6, 7, 8, 9 >>),
                CanFdFrame([hi |-> 32768, lo |-> 5], 12,
                           << 1, 2, 3, 4, 5, 6, 7, 8, 9, 10, 11, 12 >>) }
         ELSE {}

\* run(): the header and data of a frame read from a Bus Socket
\* (lines 1204-1218)
Unpack(frame) ==
    LET is_fd_frame == Len(frame) = 72
        data_len == IF is_fd_frame THEN frame[5] ELSE Min(frame[5], 8)
    IN  [is_fd |-> is_fd_frame,
         can_id |-> FromBytesLE(SubSeq(frame, 1, 4)),
         dlc |-> IF is_fd_frame THEN LenToDlc(data_len) ELSE frame[5],
         data |-> SubSeq(frame, 9, Min(8 + data_len, Len(frame)))]

\* bus_idx without the offset
BusIdxNoOffset(c, idx) == idx

\* run(): bus_idx = self.bus_offset + self.can_socks.index(fd)
BusIdx(c, idx) == c.bus_offset + idx

\* run(): the fan-out of one frame to the registered sessions, in registry
\* order; t: the clock reading of send_frame, ok: the sessions whose write
\* succeeds.  send_frame never raises (_send closes the session
\* instead), so no session is dropped from the registry here.
RECURSIVE FanOut(_, _, _, _, _, _)
FanOut(g, c, f, bus, t, ok) ==
    IF c > Len(g) THEN g
    ELSE LET msg == SendFrame(g[c].binary, f.can_id, bus, f.data, f.is_fd, t)
             st == IF msg = << >> \/ c \notin gvret_clients THEN g[c]
                   ELSE Send(g[c], msg, c \in ok)
         IN  FanOut([g EXCEPT ![c] = st], c + 1, f, bus, t, ok)

\* B_Read with an ingest queue that takes the newest entry at its head.
B_ReadNewestFirst(frames, maxFrames) ==
    /\ running
    /\ Len(bus_rx) < maxFrames
    /\ \E idx \in 0..(cfg.nsocks - 1), frame \in frames :
       IF Len(frame) < 5
       THEN \* struct.unpack_from("<IB", frame, 0) raises struct.error (line
            \* 1215); nothing in run() catches it
            /\ bus_rx' = Append(bus_rx, [idx |-> idx, frame |-> frame])
            /\ running' = FALSE
            /\ UNCHANGED << gv, wire, ingest >>
       ELSE LET f == Unpack(frame)
                bus_idx == BusIdx(cfg, idx)
                pushed == { c \in gvret_clients : gv[c].binary /\ gv[c].alive }
            IN  \E t \in IF pushed = {} THEN { [top |-> 0, hi |-> 0, lo |-> 0] }
                          ELSE ClockValues,
                   ok \in SUBSET pushed :
                    /\ bus_rx' = Append(bus_rx, [idx |-> idx, frame |-> frame])
                    /\ gv' = FanOut(gv, 1, f, bus_idx, t, ok)
                    /\ wire' = [c \in 1..Len(gv) |->
                                   IF c \in pushed \ ok
                                   THEN [wire[c] EXCEPT !.sock = "wfail"]
                                   ELSE wire[c]]
                    /\ ingest' = IF cfg.pg
                                 THEN << [can_id |-> f.can_id, dlc |-> f.dlc, data |-> f.data,
                                          bus |-> bus_idx, dir |-> cfg.dir,
                                          is_fd |-> f.is_fd] >> \o ingest
                                 ELSE ingest
                    /\ UNCHANGED running
    /\ UNCHANGED << cfg, gvret_clients, can_tx, tx_calls, calc, snd, reg, writerVars >>

\* One pass of the inner loop of run() for a frame read from the Bus Socket
\* at index idx, in a run that reads at most maxFrames frames out of
\* `frames`: decode, fan-out, enqueue.
B_Read(frames, maxFrames) ==
    /\ running
    /\ Len(bus_rx) < maxFrames
    /\ \E idx \in 0..(cfg.nsocks - 1), frame \in frames :
       IF Len(frame) < 5
       THEN \* struct.unpack_from("<IB", frame, 0) raises struct.error (line
            \* 1215); nothing in run() catches it
            /\ bus_rx' = Append(bus_rx, [idx |-> idx, frame |-> frame])
            /\ running' = FALSE
            /\ UNCHANGED << gv, wire, ingest >>
       ELSE LET f == Unpack(frame)
                bus_idx == BusIdx(cfg, idx)
                pushed == { c \in gvret_clients : gv[c].binary /\ gv[c].alive }
            IN  \E t \in IF pushed = {} THEN { [top |-> 0, hi |-> 0, lo |-> 0] }
                          ELSE ClockValues,
                   ok \in SUBSET pushed :
                    /\ bus_rx' = Append(bus_rx, [idx |-> idx, frame |-> frame])
                    /\ gv' = FanOut(gv, 1, f, bus_idx, t, ok)
                    /\ wire' = [c \in 1..Len(gv) |->
                                   IF c \in pushed \ ok
                                   THEN [wire[c] EXCEPT !.sock = "wfail"]
                                   ELSE wire[c]]
                    /\ ingest' = IF cfg.pg
                                 THEN Append(ingest, [can_id |-> f.can_id, dlc |-> f.dlc,
                                                      data |-> f.data, bus |-> bus_idx,
                                                      dir |-> cfg.dir, is_fd |-> f.is_fd])
                                 ELSE ingest
                    /\ UNCHANGED running
    /\ UNCHANGED << cfg, gvret_clients, can_tx, tx_calls, calc, snd, reg, writerVars >>

B_Frame == B_Read(BusFrames(cfg), MaxFrames)

\* The configurations of a bridge run (default_dir matters only with ingest).
BridgeConfigs == { c \in Configs : c.pg \/ c.dir = "rx" }

\* CanTcpServer.__init__: no session yet, nothing read or written.
InitBridge ==
    /\ InitWriter
    /\ cfg \in BridgeConfigs
    /\ gvret_clients = {}
    /\ gv = << >>
    /\ wire = << >>
    /\ can_tx = [i \in 0..(cfg.nsocks - 1) |-> << >>]
    /\ ingest = << >>
    /\ tx_calls = << >>
    /\ bus_rx = << >>
    /\ running = TRUE
    /\ calc = NoCalc
    /\ snd = NoSend
    /\ reg = NoReg

NextBridge == B_Accept \/ B_AcceptFail \/ B_Frame \/ S_Recv \/ S_Eof \/ S_RecvFail

SpecBridge == InitBridge /\ [][NextBridge]_vars

\* A bridge run that reads several frames: two Bus Sockets behind a bus
\* offset, classic CAN, ingest enabled.
OrderConfigs ==
    { c \in BridgeConfigs :
        c.nsocks = 2 /\ c.bus_offset = 1 /\ c.pg /\ ~c.can_fd /\ c.dir = "rx" }

InitOrder == InitBridge /\ cfg \in OrderConfigs

B_FrameInOrder == B_Read(BusFrames(cfg), MaxOrderFrames)

NextOrder == B_Accept \/ B_AcceptFail \/ B_FrameInOrder \/ S_Recv \/ S_Eof \/ S_RecvFail

SpecOrder == InitOrder /\ [][NextOrder]_vars

\* A remote-transmission request as the Bus Socket delivers it: CAN_RTR_FLAG
\* (bit 30) in can_id, the requested length as DLC, a data field of zeros.
RtrFrames == { CanFrame([hi |-> 16384, lo |-> 291], 2, << >>) }

\* Reads of other sizes than a whole frame: 3 bytes, and the first 12 bytes
\* of a classic frame with DLC 8.
ShortReads == { << 35, 1, 0 >>, << 35, 1, 0, 0, 8, 0, 0, 0, 17, 34, 51, 68 >> }

\* A bridge run with ingest on whose Bus Sockets deliver those reads too.
ReadsConfigs == { c \in BridgeConfigs : c.pg /\ c.dir = "rx" }

InitReads == InitBridge /\ cfg \in ReadsConfigs

B_AnyRead == B_Read(BusFrames(cfg) \cup RtrFrames \cup ShortReads, MaxFrames)

NextReads == B_Accept \/ B_AcceptFail \/ B_AnyRead \/ S_Recv \/ S_Eof \/ S_RecvFail

SpecReads == InitReads /\ [][NextReads]_vars

\* ------------------------------------------------------------ termination
\* main(): KeyboardInterrupt, or SystemExit from the SIGTERM handler, is
\* raised in the main thread inside server.run() and leaves its loop (lines
\* 1404, 1460-1462).  Nothing is said to the sessions: their threads are
\* daemon threads that loop on their own `alive` (lines 806, 869).
M_Interrupt ==
    /\ running
    /\ opc = "run"
    /\ running' = FALSE
    /\ UNCHANGED << cfg, gvret_clients, gv, wire, can_tx, ingest, tx_calls, bus_rx, calc,
                    snd, reg, writerVars >>

\* main(): finally: pg_writer.close() (lines 1466-1468), begun once run() has
\* been left.
M_Finally == ~running /\ C_Close

\* One session that will send the handshake and a BUILD_FRAME request for
\* bus 0 without payload; one Bus Socket, ingest on.
ShutdownInputs == { << E7, E7, F1, 0, 128, 0, 0, 0, 0, 0 >> }

\* The worker steps possible while no row is in the queue (the rows of this
\* run are kept in the enqueue log `ingest`).
WorkerNoRows ==
    \/ W_LoopTest \/ W_Overflow \/ W_DrainGet \/ W_Connect \/ W_CacheCheck
    \/ W_QGet \/ W_QMore \/ W_Commit \/ W_Fail \/ W_Sleep \/ W_SfGet

InitShutdown ==
    InitAccepted({ c \in Configs : c.pg /\ c.nsocks = 1 /\ c.bus_offset = 0
                                    /\ ~c.can_fd /\ c.dir = "rx" }, ShutdownInputs)

NextShutdown ==
    \/ M_Interrupt \/ M_Finally
    \/ WorkerNoRows
    \/ C_JoinDone \/ C_JoinTimeout \/ C_Check \/ C_EmGet \/ C_CloseCache
    \/ S_Recv \/ S_Eof \/ S_RecvFail

SpecShutdown == InitShutdown /\ [][NextShutdown]_vars

\* ------------------------------------------------------- the DLC helpers
\* A call of len_to_dlc(arg) or dlc_to_len(arg, is_fd) about to be made; the
\* result goes back through the other helper (with the same is_fd).
InitDlc ==
    /\ InitWriter
    /\ InitServerDefault
    /\ \E fn \in { "len_to_dlc", "dlc_to_len" }, fd \in BOOLEAN :
       \E x \in 0..(IF fn = "len_to_dlc" THEN MaxLenArg ELSE MaxDlcArg) :
           calc = [NoCalc EXCEPT !.fn = fn, !.arg = x, !.is_fd = fd]
    /\ snd = NoSend
    /\ reg = NoReg

\* The call returns.
Dlc_Call ==
    /\ calc.fn # "none" /\ calc.stage = 0
    /\ calc' = [calc EXCEPT !.stage = 1,
                            !.mid = IF calc.fn = "len_to_dlc" THEN LenToDlc(calc.arg)
                                    ELSE DlcToLen(calc.arg, calc.is_fd)]
    /\ UNCHANGED << cfg, gvret_clients, gv, wire, can_tx, ingest, tx_calls, bus_rx, running,
                    snd, reg, writerVars >>

\* The result is converted back by the other helper.
Dlc_Back ==
    /\ calc.stage = 1
    /\ calc' = [calc EXCEPT !.stage = 2,
                            !.res = IF calc.fn = "len_to_dlc" THEN DlcToLen(calc.mid, calc.is_fd)
                                    ELSE LenToDlc(calc.mid)]
    /\ UNCHANGED << cfg, gvret_clients, gv, wire, can_tx, ingest, tx_calls, bus_rx, running,
                    snd, reg, writerVars >>

NextDlc == Dlc_Call \/ Dlc_Back

SpecDlc == InitDlc /\ [][NextDlc]_vars

\* ------------------------------------------- one session's send path
\* What a task hands to _send: the receive thread a keepalive response, the
\* Bridge Core the push of an empty standard frame.
SendMessage(t) ==
    IF t = "rx" THEN ReplyKeepalive
    ELSE SendFrame(TRUE, [hi |-> 0, lo |-> 291], 0, << >>, FALSE, [top |-> 0, hi |-> 0, lo |-> 1])

\* What the send path leaves alone.
notSendVars == << cfg, gvret_clients, gv, wire, can_tx, ingest, tx_calls, bus_rx, running,
                  calc, reg, writerVars >>

\* A session in binary state, its connection open, nothing sent yet.
InitSend == InitWriter /\ InitServerDefault /\ calc = NoCalc /\ reg = NoReg /\ snd = NoSend

\* A task calls _send(b) (reply_keepalive, line 864; send_frame, line 1005)
\* and reaches `with self.lock` (line 811).
Snd_Call ==
    \E t \in Senders :
        /\ snd.pc[t] = "idle" /\ snd.n < MaxSends
        /\ snd' = [snd EXCEPT !.pc[t] = "wait", !.rest[t] = SendMessage(t), !.n = @ + 1]
        /\ UNCHANGED notSendVars

\* `with self.lock` entered without waiting for the lock.
Snd_AcquireNoLock ==
    \E t \in Senders :
        /\ snd.pc[t] = "wait"
        /\ snd' = [snd EXCEPT !.lock = t, !.pc[t] = "in"]
        /\ UNCHANGED notSendVars

\* `with self.lock`: the lock is acquired once it is free (line 811).
Snd_Acquire ==
    \E t \in Senders :
        /\ snd.pc[t] = "wait" /\ snd.lock = "free"
        /\ snd' = [snd EXCEPT !.lock = t, !.pc[t] = "in"]
        /\ UNCHANGED notSendVars

\* self.conn.sendall(b): the next byte goes out, or the write raises (always
\* on a closed connection) and the handler is entered (lines 812-814).
Snd_Write ==
    \E t \in Senders, ok \in BOOLEAN :
        /\ snd.pc[t] = "in"
        /\ IF ok /\ snd.alive
           THEN snd' = [snd EXCEPT !.out = Append(@, [by |-> t, b |-> Head(snd.rest[t])]),
                                   !.rest[t] = Tail(@),
                                   !.pc[t] = IF Len(snd.rest[t]) = 1 THEN "release" ELSE "in"]
           ELSE snd' = [snd EXCEPT !.pc[t] = "closing"]
        /\ UNCHANGED notSendVars

\* _send: `except Exception: self.close()` (lines 814-815, 1007-1019)
Snd_Close ==
    \E t \in Senders :
        /\ snd.pc[t] = "closing"
        /\ snd' = [snd EXCEPT !.alive = FALSE, !.pc[t] = "release"]
        /\ UNCHANGED notSendVars

\* The end of `with self.lock`: the lock is released.
Snd_Release ==
    \E t \in Senders :
        /\ snd.pc[t] = "release"
        /\ snd' = [snd EXCEPT !.lock = "free", !.pc[t] = "idle", !.rest[t] = << >>]
        /\ UNCHANGED notSendVars

\* _rx_loop ends (EOF or a read error) and its finally clause calls close(),
\* outside the lock (lines 928-929).
Snd_RxEnds ==
    /\ snd.pc["rx"] = "idle" /\ snd.alive
    /\ snd' = [snd EXCEPT !.alive = FALSE, !.pc["rx"] = "done"]
    /\ UNCHANGED notSendVars

NextSend == Snd_Call \/ Snd_Acquire \/ Snd_Write \/ Snd_Close \/ Snd_Release \/ Snd_RxEnds

SpecSend == InitSend /\ [][NextSend]_vars

\* ------------------------------------------- the occupancy warnings
\* PostgresWriter.enqueue on a queue of capacity WarnCap that is not full:
\* put_nowait, count_enqueued, _maybe_warn_thresholds (lines 433-436).
Wn_Enqueue ==
    /\ attempts < MaxWarnEnq
    /\ Len(q) < WarnCap
    /\ attempts' = attempts + 1
    /\ q' = Append(q, attempts + 1)
    /\ count_enqueued' = count_enqueued + 1
    /\ last_bucket' = WarnThresholds(Len(q'), WarnCap, last_bucket)
    /\ UNCHANGED << count_dropped, workerVars, ownerVars, envVars, cacheVars, count_written,
                    count_cache_recovered, committed, droppedRows, memCommitted,
                    bridgeVars >>

\* The worker takes an entry off the queue (q.get, lines 564-574).
Wn_Get ==
    /\ q # << >>
    /\ q' = Tail(q)
    /\ UNCHANGED << attempts, count_enqueued, last_bucket, count_dropped, workerVars,
                    ownerVars, envVars, cacheVars, count_written, count_cache_recovered,
                    committed, droppedRows, memCommitted, bridgeVars >>

NextWarn == Wn_Enqueue \/ Wn_Get

SpecWarn == Init /\ [][NextWarn]_vars

\* ------------------------------------- the counters, statement by statement
\* `self.count_x += n` is a read of the attribute, an addition and a write
\* of the attribute, made under no lock: another thread may run in between.
\* What the counter updates leave alone.
notCounterVars == << alive, conn, db_unavailable, draining_cache, disk_cache, count_written,
                     count_cached, count_cache_recovered, wpc, batch, ids, backoff,
                     drainRet, remaining, opc, emBatch, dbUp, dbFails, committed,
                     memCommitted, dcLog, last_bucket, closeMark, cfg, gvret_clients, gv,
                     wire, can_tx, ingest, tx_calls, bus_rx, running, calc, snd >>

\* The pipeline with the SQL store away and a spill file at its maximum size
\* (left by rows spilled and written back earlier: the file keeps its size).
InitCounters ==
    /\ InitWriterOn([NewDiskCache EXCEPT !.seq = CacheMax, !.size = CacheMax])
    /\ InitServerDefault /\ calc = NoCalc /\ snd = NoSend /\ reg = NoReg
    /\ ~dbUp

\* enqueue on a producer thread: put_nowait (line 434), up to the read of the
\* counter it is about to bump (line 435 or 438).
Cn_Put ==
    \E t \in { "core", "session" } :
        /\ reg[t].pc = "idle"
        /\ attempts < MaxEnq
        /\ attempts' = attempts + 1
        /\ IF Len(q) < QueueMax
           THEN /\ q' = Append(q, attempts + 1)
                /\ reg' = [reg EXCEPT ![t] = [pc |-> "load_enqueued", tmp |-> 0, n |-> 1]]
           ELSE /\ q' = q
                /\ reg' = [reg EXCEPT ![t] = [pc |-> "load_dropped", tmp |-> 0, n |-> 1]]
        /\ UNCHANGED << count_enqueued, count_dropped, drainBatch, droppedRows,
                        notCounterVars >>

\* _drain_queue_to_cache on the worker thread: a chunk of up to batch_size
\* rows is taken off the queue and handed to _write_to_cache, which finds the
\* spill store full (lines 628-638, 611-614), up to the read of count_dropped.
Cn_SpillFull ==
    /\ reg["worker"].pc = "idle"
    /\ q # << >>
    /\ IsFull(disk_cache)
    /\ LET k == Min(Len(q), BatchSize)
       IN  /\ drainBatch' = SubSeq(q, 1, k)
           /\ q' = SubSeq(q, k + 1, Len(q))
           /\ droppedRows' = droppedRows \cup Range(SubSeq(q, 1, k))
           /\ reg' = [reg EXCEPT !["worker"] = [pc |-> "load_dropped", tmp |-> 0, n |-> k]]
    /\ UNCHANGED << count_enqueued, count_dropped, attempts, notCounterVars >>

\* `self.count_x += n`: the read of the attribute.
Cn_Load ==
    \E t \in Counters :
        /\ reg[t].pc \in { "load_enqueued", "load_dropped" }
        /\ reg' = [reg EXCEPT ![t].tmp = IF reg[t].pc = "load_enqueued" THEN count_enqueued
                                         ELSE count_dropped,
                              ![t].pc = IF reg[t].pc = "load_enqueued" THEN "store_enqueued"
                                        ELSE "store_dropped"]
        /\ UNCHANGED << q, attempts, count_enqueued, count_dropped, drainBatch, droppedRows,
                        notCounterVars >>

\* `self.count_x += n`: the write of the sum.
Cn_Store ==
    \E t \in Counters :
        /\ reg[t].pc \in { "store_enqueued", "store_dropped" }
        /\ IF reg[t].pc = "store_enqueued"
           THEN count_enqueued' = reg[t].tmp + reg[t].n /\ UNCHANGED count_dropped
           ELSE count_dropped' = reg[t].tmp + reg[t].n /\ UNCHANGED count_enqueued
        /\ reg' = [reg EXCEPT ![t] = [pc |-> "idle", tmp |-> 0, n |-> 0]]
        /\ drainBatch' = IF t = "worker" THEN << >> ELSE drainBatch
        /\ UNCHANGED << q, attempts, droppedRows, notCounterVars >>

NextCounters == Cn_Put \/ Cn_SpillFull \/ Cn_Load \/ Cn_Store

SpecCounters == InitCounters /\ [][NextCounters]_vars

\* ------------------------------------------------------------------ claims
\* Rows held in a batch by a thread that popped them from the queue (the
\* worker's batch, its drain chunk and shutdown list, the owner's emergency
\* chunk).
InFlight ==
    Range(batch) \cup Range(drainBatch) \cup Range(remaining) \cup Range(emBatch)

QueuedRows == { x \in Range(q) : IsRow(x) }
SpilledRows == { r.row : r \in disk_cache.frames }

\* Everywhere a row is accounted for.
Tracked == QueuedRows \cup InFlight \cup Range(committed) \cup SpilledRows \cup droppedRows

\* C1: the rows committed to the SQL store are committed in enqueue order,
\* each row once: the commit sequence is strictly increasing in enqueue number.
C1_CommitOrder ==
    \A i, j \in 1..Len(committed) : i < j => committed[i] < committed[j]


\* C2: no row is lost silently.  A row accepted by enqueue is from then on
\* in the queue, in a thread's in-flight batch, committed, in the spill
\* store or accounted for by count_dropped; a record leaves the spill store
\* only once its row is committed; count_dropped covers every dropped row.
C2_NoSilentLoss ==
    /\ [][ /\ (attempts' = attempts + 1 /\ Len(q) < QueueMax => attempts' \in Tracked')
           /\ Tracked \subseteq Tracked'
           /\ \A r \in disk_cache.frames \ disk_cache'.frames : r.row \in Range(committed)
         ]_vars
    /\ [](count_dropped >= (attempts - count_enqueued) + Cardinality(droppedRows))

C2_Witness ==
    /\ droppedRows # {}
    /\ count_cache_recovered > 0
    /\ QueuedRows # {}
    /\ droppedRows \cap Range(committed) = {}


\* The queue holds no row and no thread holds rows it has popped.
Idle ==
    /\ QueuedRows = {}
    /\ drainBatch = << >> /\ remaining = << >> /\ emBatch = << >>
    /\ wpc \in {"loop", "overflow", "drain", "connect", "cachecheck", "qget", "sleep", "done"}

\* C3: accounting.  Whenever the pipeline is idle, enqueued = written +
\* dropped + rows still in the spill store, reading "enqueued" either as
\* count_enqueued or as the number of enqueue calls (dropped includes the
\* queue-full drops).
C3_Accounting ==
    Idle => \/ count_enqueued = count_written + count_dropped + Count(disk_cache)
            \/ attempts = count_written + count_dropped + Count(disk_cache)


\* C4: whenever the worker commits rows taken from the in-memory queue
\* (normal batching or shutdown flush), the spill store is empty.
C4_SpillBeforeMemory ==
    [][memCommitted' # memCommitted => IsEmpty(disk_cache)]_vars


\* The rows 1..n in enqueue order.
FirstRows(n) == [i \in 1..n |-> i]

IsIncreasing(s) == \A i, j \in 1..Len(s) : i < j => s[i] < s[j]

\* C5: during an outage nothing is written; the spill store holds rows in
\* enqueue order; with at most QueueMax enqueue calls and a spill store that
\* is not full, nothing is dropped and, once the worker has drained the
\* queue, the spill store holds all the rows enqueued.
C5_Safe ==
    /\ count_written = 0 /\ committed = << >>
    /\ IsIncreasing(CacheRows(disk_cache))
    /\ (attempts <= QueueMax /\ ~IsFull(disk_cache)) => count_dropped = 0

C5_Settled ==
    (attempts <= QueueMax /\ ~IsFull(disk_cache))
        => /\ q = << >>
           /\ CacheRows(disk_cache) = FirstRows(attempts)
           /\ count_dropped = 0

C5_OutageSpillsAll == [](C5_Safe) /\ <>[](C5_Settled)

C5_Witness ==
    /\ attempts >= 2 /\ attempts <= QueueMax
    /\ ~IsFull(disk_cache)
    /\ CacheRows(disk_cache) = FirstRows(attempts)
    /\ count_dropped = 0 /\ count_cached = attempts


\* C6: recovery.  A batch read from the spill store for commit has at most
\* BatchSize rows and is the oldest records in identifier order; and if the
\* SQL store stays reachable from some point on (the worker keeps running),
\* the spill store ends up empty with count_written = rows spilled
\* (count_cached) + rows committed from memory.
C6_BatchOldestFirst ==
    wpc \in {"cachecommit", "cachedelete"} =>
        /\ Len(ids) <= BatchSize /\ Len(ids) = Len(batch) /\ Len(ids) >= 1
        /\ IsIncreasing(ids)
        /\ \A r \in disk_cache.frames :
              \/ \E i \in 1..Len(ids) : ids[i] = r.id /\ batch[i] = r.row
              \/ \A i \in 1..Len(ids) : ids[i] < r.id

C6_Drained ==
    /\ IsEmpty(disk_cache)
    /\ count_written = count_cached + Cardinality(memCommitted)
    /\ count_cache_recovered = count_cached

AppendPos(id) == CHOOSE k \in 1..Len(dcLog) : dcLog[k] = id

C7_IdOrder ==
    /\ \A i, j \in 1..Len(dcLog) : i < j => dcLog[i] < dcLog[j]
    /\ \A r \in disk_cache.frames : r.row \in 1..Len(dcLog) /\ dcLog[r.row] = r.id
    /\ Len(ids) = Len(batch)
    /\ \A i \in 1..Len(ids) : ids[i] \in Range(dcLog) /\ batch[i] = AppendPos(ids[i])
    /\ \A i, j \in 1..Len(ids) : i < j => AppendPos(ids[i]) < AppendPos(ids[j])
    /\ \A r \in disk_cache.frames : \A i \in 1..Len(ids) :
          r.id \notin Range(ids) => AppendPos(ids[i]) < r.row

C7_Witness ==
    /\ Len(ids) = BatchSize
    /\ \E r \in disk_cache.frames : r.id > ids[Len(ids)]
    /\ ids[1] > BatchSize
    /\ Len(dcLog) = MaxAppend


\* C8: spill-full.  When is_full() holds, a call of _write_to_cache(b), by the
\* worker or by the owner's emergency path, stores none of b's rows, leaves the
\* records of the spill store as they were, adds exactly len(b) to
\* count_dropped and nothing to count_cached.
WorkerSpillArg ==
    CASE wpc \in {"spill_drain", "spill_drain_last"} -> drainBatch
      [] wpc = "spill_fail" -> batch
      [] wpc = "spill_shutdown" -> remaining
      [] OTHER -> << >>

WorkerSpills == wpc \in {"spill_drain", "spill_drain_last", "spill_fail", "spill_shutdown"} /\ wpc' # wpc
OwnerSpills == opc \in {"em_spill", "em_spill_last"} /\ opc' # opc

FullSpillDrops(b) ==
    /\ disk_cache'.frames = disk_cache.frames
    /\ disk_cache'.seq = disk_cache.seq
    /\ disk_cache'.size = disk_cache.size
    /\ count_dropped' = count_dropped + Len(b)
    /\ count_cached' = count_cached
    /\ dcLog' = dcLog

C8_FullSpillDrops ==
    [][ IsFull(disk_cache) =>
          /\ WorkerSpills => FullSpillDrops(WorkerSpillArg)
          /\ OwnerSpills => FullSpillDrops(emBatch) ]_vars

C8_Witness ==
    /\ IsFull(disk_cache)
    /\ ~disk_cache.closed
    /\ count_dropped >= BatchSize
    /\ droppedRows # {}
    /\ Count(disk_cache) = CacheMax


\* C9: enqueue is a bounded non-blocking put.  The queue never holds more than
\* QueueMax items (the wake-up item of close() included); an enqueue call is
\* one step that is always enabled; on a full queue it leaves the queue as it
\* is, adds one to count_dropped and nothing to count_enqueued, otherwise it
\* appends the row at the tail and adds one to count_enqueued only.
EnqueueStep == attempts' = attempts + 1

C9_QueueBounded == Len(q) <= QueueMax

C9_EnqueueEffect ==
    EnqueueStep =>
        IF Len(q) >= QueueMax
        THEN /\ q' = q
             /\ count_dropped' = count_dropped + 1
             /\ count_enqueued' = count_enqueued
        ELSE /\ q' = Append(q, attempts')
             /\ count_enqueued' = count_enqueued + 1
             /\ count_dropped' = count_dropped

C9_EnqueueNonBlocking ==
    /\ [](C9_QueueBounded)
    /\ [](attempts < MaxEnq => ENABLED Enqueue)
    /\ [][C9_EnqueueEffect]_vars

C9_Witness ==
    /\ Len(q) = QueueMax
    /\ attempts - count_enqueued >= 1
    /\ count_dropped >= 1
    /\ droppedRows = {}
    /\ q[Len(q)] = attempts


\* C10: shutdown.  Once close() has returned (no enqueue call having been made
\* since close() began), the in-memory queue holds no row and every row that
\* was accepted has been committed to the SQL store, or is in the spill store,
\* or was counted in count_dropped.
C10_CloseFlushes ==
    (opc = "closed" /\ attempts = closeMark) =>
        /\ QueuedRows = {}
        /\ Tracked \subseteq (Range(committed) \cup SpilledRows \cup droppedRows)


\* ------------------------------------------------------------ claims C11..
\* The bytes after the first E7 E7 pair of a byte stream (<< >> without one).
AfterFirstPair(bytes) ==
    IF FindPair(bytes) = 0 THEN << >> ELSE Drop(bytes, FindPair(bytes) + 1)

\* The fixed responses owed to a byte stream read as binary requests.
FixedReplies(bytes) ==
    LET ev == SelectSeq(ParseLoop(bytes, << >>).ev, LAMBDA e : e.kind = "reply")
    IN  [i \in 1..Len(ev) |-> ev[i].msg]

\* C11: a session starts in ascii and emits nothing while in it; it is binary
\* exactly when the bytes received so far contain two consecutive E7 bytes,
\* whatever the read boundaries; and the responses it has emitted are those
\* owed to the bytes after the first such pair, parsed as binary requests
\* (XX E7 E7 F1 09 gives exactly one F1 09 DE AD).
C11_Handshake ==
    \A c \in gvret_clients :
        wire[c].sock # "wfail" =>
            /\ (~gv[c].binary => gv[c].out = << >>)
            /\ (gv[c].binary <=> FindPair(Received(c)) # 0)
            /\ gv[c].out = FixedReplies(AfterFirstPair(Received(c)))

\* C11, the parts that hold: silent in ascii, binary exactly from the first pair.
C11_AsciiSilent ==
    \A c \in gvret_clients :
        /\ (~gv[c].binary => gv[c].out = << >>)
        /\ (gv[c].binary <=> FindPair(Received(c)) # 0)

\* The opcodes of the complete two-byte requests of a run of fixed-size
\* requests, in order.
Opcodes(bytes) == [i \in 1..(Len(bytes) \div 2) |-> bytes[2 * i]]

\* msg is the response the protocol gives to a fixed-size request with
\* opcode op under configuration c (for F1 06 only its size is stated here).
IsResponseTo(msg, op, c) ==
    CASE op = 9 -> msg = << 241, 9, 222, 173 >>
      [] op = 7 -> msg = << 241, 7, 144, 1, 1, 0, 0, 0 >>
      [] op = 12 -> msg = << 241, 12, c.bus_offset + c.nsocks >>
      [] op = 1 -> \E t \in ClockValues :
                       msg = << 241, 1, t.lo % 256, t.lo \div 256, t.hi % 256, t.hi \div 256 >>
      [] op = 6 -> Len(msg) = 12 /\ msg[1] = 241 /\ msg[2] = 6
      [] OTHER -> FALSE

\* C12: in binary state every complete fixed-size request has been consumed
\* as two bytes and answered by exactly one response, in request order, with
\* the bytes the protocol gives for F1 09, F1 07, F1 0C and F1 01.
C12_FixedRequests ==
    \A c \in gvret_clients :
        gv[c].alive /\ gv[c].binary =>
            LET rest == AfterFirstPair(Received(c))
                ops == Opcodes(rest)
                ans == SelectSeq(ops, LAMBDA op : op \in { 1, 6, 7, 9, 12 })
            IN  /\ gv[c].buf = Drop(rest, 2 * Len(ops))
                /\ Len(gv[c].out) = Len(ans)
                /\ \A i \in 1..Len(ans) : IsResponseTo(gv[c].out[i], ans[i], cfg)

\* Two requests answered in order, the first a timebase request read when
\* the clock is above 2^32, the second a bus count request with offset.
C12_Witness ==
    \E c \in gvret_clients :
        /\ gv[c].alive /\ cfg.bus_offset = 1 /\ cfg.nsocks = 2
        /\ gv[c].out = << << 241, 1, 1, 2, 255, 255 >>, << 241, 12, 3 >> >>

\* msg is a GET_BUS_PARAMS response for n advertised buses: 12 bytes,
\* F1 06, then for each of the buses 0 and 1 a flags byte and a 4-byte rate;
\* flags bit 0 set exactly for a bus below n, zeros for a bus beyond it.
IsBusParams(msg, n) ==
    /\ Len(msg) = 12 /\ msg[1] = 241 /\ msg[2] = 6
    /\ (msg[3] % 2 = 1) <=> (0 < n)
    /\ (msg[8] % 2 = 1) <=> (1 < n)
    /\ n <= 0 => SubSeq(msg, 3, 7) = << 0, 0, 0, 0, 0 >>
    /\ n <= 1 => SubSeq(msg, 8, 12) = << 0, 0, 0, 0, 0 >>

\* C13: under every configuration each complete GET_BUS_PARAMS request
\* (F1 06) of a session whose connection is intact has been answered by
\* exactly one well-formed 12-byte response, and the session is open.
C13_BusParams ==
    \A c \in gvret_clients :
        wire[c].sock = "ok" =>
            LET ops == Opcodes(AfterFirstPair(Received(c)))
                asked == SelectSeq(ops, LAMBDA op : op = 6)
                got == SelectSeq(gv[c].out, LAMBDA msg : msg[2] = 6)
            IN  /\ gv[c].alive
                /\ Len(got) = Len(asked)
                /\ \A i \in 1..Len(got) : IsBusParams(got[i], cfg.bus_offset + cfg.nsocks)

\* C13 restricted to configurations with bus_offset = 0 or two interfaces.
C13_BusParamsTwoSpeeds ==
    (cfg.bus_offset = 0 \/ cfg.nsocks >= 2) => C13_BusParams

\* The tx_func call the protocol asks for a complete BUILD_FRAME request r
\* (F1 00, identifier, bus, length, data): bus = byte 6, identifier = the low
\* 29 bits and the extended flag if bit 31 of the little-endian u32 in bytes
\* 2..5 is set, else the low 11 bits, data = the first min(L, 8) data bytes.
InjectedFrame(r) ==
    LET ext == r[6] >= 128
        L == IF r[8] < 8 THEN r[8] ELSE 8
    IN  [bus |-> r[7],
         can_id |-> IF ext
                    THEN [hi |-> 32768 + ((r[5] + 256 * r[6]) % 8192), lo |-> r[3] + 256 * r[4]]
                    ELSE [hi |-> 0, lo |-> (r[3] + 256 * r[4]) % 2048],
         data |-> SubSeq(r, 9, 8 + L)]

\* A BUILD_FRAME request at the head of r with all its 8 + L bytes.
CompleteFrame(r) == Len(r) >= 8 /\ Len(r) >= 8 + r[8]

\* C14 for session c: until all 8 + L bytes of a BUILD_FRAME request are
\* buffered none of them is consumed and nothing is injected; once they are,
\* exactly 8 + L bytes are consumed (what follows is parsed as the next
\* request) and exactly one frame is handed to the transmit path, with the
\* bus, identifier and payload of the request.
BuildFrameParsed(c) ==
    LET rest == AfterFirstPair(Received(c))
    IN  gv[c].alive /\ gv[c].binary /\ Len(rest) >= 2 =>
            IF CompleteFrame(rest)
            THEN /\ tx_calls = << InjectedFrame(rest) >>
                 /\ gv[c].buf = ParseLoop(Drop(rest, 8 + rest[8]), << >>).buf
                 /\ gv[c].out = FixedReplies(Drop(rest, 8 + rest[8]))
            ELSE /\ tx_calls = << >>
                 /\ gv[c].buf = rest
                 /\ gv[c].out = << >>

\* C14: every BUILD_FRAME request of a session in binary state is parsed
\* that way.
C14_BuildFrame == \A c \in gvret_clients : BuildFrameParsed(c)

\* C14 for requests whose bytes hold no two consecutive E7 bytes.
C14_BuildFrameNoPair ==
    \A c \in gvret_clients :
        FindPair(Drop(wire[c].data, 2)) = 0 => BuildFrameParsed(c)

\* The request of the transmit example and the session that has received
\* all of it after the handshake, its connection intact.
TxExample == << 241, 0, 128, 0, 0, 0, 0, 1, 65, 66, 67, 68 >>
GotTxExample(c) ==
    /\ wire[c].data = << 231, 231 >> \o TxExample
    /\ wire[c].at = Len(wire[c].data)
    /\ wire[c].sock = "ok"

\* C15 as stated: after F1 00 80 00 00 00 00 01 41 42 43 44 the Bus Socket at
\* index 1 has received one classic frame with the extended flag set,
\* identifier 0, DLC 1 and payload 41, and the Ingest Pipeline exactly one
\* entry with direction "tx".
C15_TxExample ==
    \A c \in gvret_clients :
        GotTxExample(c) /\ gv[c].alive =>
            /\ 1 \in DOMAIN can_tx
            /\ can_tx[1] = << << 0, 0, 0, 128, 1, 0, 0, 0, 65, 0, 0, 0, 0, 0, 0, 0 >> >>
            /\ cfg.pg => Len(ingest) = 1 /\ ingest[1].dir = "tx"

\* C15 amended: the identifier bytes 80 00 00 00 are the little-endian
\* standard identifier 0x080 and byte 6 names bus 0.  Exactly one frame is
\* handed to the transmit path, for bus 0; when bus 0 has a Bus Socket
\* (bus_offset = 0) and its write succeeds, that socket, at index 0, has
\* received one classic frame with the extended flag clear, identifier 0x080,
\* DLC 1 and payload 41, no other socket has received anything, and the
\* Ingest Pipeline, when enabled, has exactly one entry, with direction "tx".
C15_TxExampleBus0 ==
    \A c \in gvret_clients :
        GotTxExample(c) =>
            /\ tx_calls = << [bus |-> 0, can_id |-> [hi |-> 0, lo |-> 128], data |-> << 65 >>] >>
            /\ \A i \in DOMAIN can_tx : i # 0 => can_tx[i] = << >>
            /\ cfg.bus_offset > 0 => can_tx[0] = << >> /\ ingest = << >>
            /\ cfg.bus_offset = 0 /\ gv[c].alive =>
                   /\ can_tx[0] = << << 128, 0, 0, 0, 1, 0, 0, 0, 65, 0, 0, 0, 0, 0, 0, 0 >> >>
                   /\ Len(ingest) = IF cfg.pg THEN 1 ELSE 0
                   /\ \A i \in 1..Len(ingest) : ingest[i].dir = "tx"

\* The example has been transmitted on bus 0 with ingest enabled.
C15_Witness ==
    \E c \in gvret_clients :
        /\ GotTxExample(c) /\ gv[c].alive /\ cfg.bus_offset = 0 /\ cfg.pg
        /\ Len(can_tx[0]) = 1 /\ Len(ingest) = 1

\* msg is a frame push (F1 00 ...), which no fixed response is.
IsPush(msg) == Len(msg) >= 12 /\ msg[1] = 241 /\ msg[2] = 0

\* C16: in the step that handles one frame read from the Bus Socket at index
\* idx, every registered open session in binary state whose write succeeds is
\* sent exactly one frame push, a session in ascii state is sent nothing and
\* keeps nothing of the frame, and with ingest enabled exactly one entry is
\* enqueued, with the default direction and bus = bus_offset + idx (without
\* ingest, none).
C16_Step ==
    Len(bus_rx') = Len(bus_rx) + 1 =>
        LET idx == bus_rx'[Len(bus_rx')].idx
        IN  /\ \A c \in gvret_clients :
                  /\ gv[c].binary /\ gv'[c].alive =>
                         /\ Len(gv'[c].out) = Len(gv[c].out) + 1
                         /\ SubSeq(gv'[c].out, 1, Len(gv[c].out)) = gv[c].out
                         /\ IsPush(gv'[c].out[Len(gv'[c].out)])
                  /\ ~gv[c].binary => gv'[c] = gv[c]
            /\ cfg.pg =>
                  /\ Len(ingest') = Len(ingest) + 1
                  /\ SubSeq(ingest', 1, Len(ingest)) = ingest
                  /\ ingest'[Len(ingest')].dir = cfg.dir
                  /\ ingest'[Len(ingest')].bus = cfg.bus_offset + idx
            /\ ~cfg.pg => ingest' = ingest

C16_FanOut == [][C16_Step]_vars

\* A frame from the second Bus Socket of a bridge with an offset has been
\* pushed to one session in binary state, not to a session still in ascii
\* state, and enqueued with the default direction "tx".
C16_Witness ==
    /\ Len(bus_rx) = 1 /\ bus_rx[1].idx = 1 /\ cfg.bus_offset = 1 /\ cfg.dir = "tx"
    /\ Len(ingest) = 1
    /\ \E c, d \in gvret_clients :
           /\ gv[c].binary /\ gv[c].alive /\ Len(gv[c].out) = 1 /\ IsPush(gv[c].out[1])
           /\ ~gv[d].binary /\ gv[d].alive /\ gv[d].out = << >>

\* The data length a CAN FD DLC stands for.
FdLen(d) == << 0, 1, 2, 3, 4, 5, 6, 7, 8, 12, 16, 20, 24, 32, 48, 64 >>[d + 1]

\* msg is the frame push the protocol gives for the Bus Socket frame `frame`
\* on bus b: F1 00, four timestamp bytes, the arbitration identifier as
\* little-endian u32 with bit 31 set exactly for an extended frame, b in the
\* high and the DLC in the low nibble of one byte (DLC = n for classic, the
\* smallest FD DLC whose length is >= n for FD), the n payload bytes, and 00.
IsPushOf(msg, frame, b) ==
    LET fd == Len(frame) = 72
        n == IF fd \/ frame[5] <= 8 THEN frame[5] ELSE 8
        ext == frame[4] >= 128
        id == IF ext THEN << frame[1], frame[2], frame[3], 128 + (frame[4] % 32) >>
              ELSE << frame[1], frame[2] % 8, 0, 0 >>
        dlc == IF fd THEN CHOOSE d \in 0..15 :
                              FdLen(d) >= n /\ \A e \in 0..(d - 1) : FdLen(e) < n
               ELSE n
    IN  /\ Len(msg) = 12 + n
        /\ msg[1] = 241 /\ msg[2] = 0
        /\ \A i \in 3..6 : msg[i] \in 0..255
        /\ SubSeq(msg, 7, 10) = id
        /\ msg[11] = 16 * b + dlc
        /\ SubSeq(msg, 12, 11 + n) = SubSeq(frame, 9, 8 + n)
        /\ msg[12 + n] = 0

\* The DLC nibble of a push decodes to the number of payload bytes it carries.
DlcMatchesPayload(msg, fd) ==
    LET d == msg[11] % 16
    IN  Len(msg) - 12 = IF fd THEN FdLen(d) ELSE d

\* The pushes written in the step that handles one frame from a Bus Socket.
PushesOfStep ==
    { gv'[c].out[Len(gv'[c].out)] :
        c \in { x \in gvret_clients : Len(gv'[x].out) = Len(gv[x].out) + 1 } }

\* C17: every frame push has that layout, total length 12 + n, and a DLC
\* nibble that decodes to the number of payload bytes that follow.
C17_Step ==
    Len(bus_rx') = Len(bus_rx) + 1 =>
        LET r == bus_rx'[Len(bus_rx')]
        IN  \A msg \in PushesOfStep :
                /\ IsPushOf(msg, r.frame, cfg.bus_offset + r.idx)
                /\ DlcMatchesPayload(msg, Len(r.frame) = 72)

C17_PushLayout == [][C17_Step]_vars

\* C17 without its last clause: the layout alone.
C17_LayoutStep ==
    Len(bus_rx') = Len(bus_rx) + 1 =>
        LET r == bus_rx'[Len(bus_rx')]
        IN  \A msg \in PushesOfStep : IsPushOf(msg, r.frame, cfg.bus_offset + r.idx)

C17_LayoutOnly == [][C17_LayoutStep]_vars

\* Every iteration of the request-parsing loop started on buffer b either
\* stops or leaves a strictly shorter buffer.
RECURSIVE LoopDecreases(_)
LoopDecreases(b) ==
    LET r == ParseIter(b)
    IN  r.stop \/ (Len(r.buf) < Len(b) /\ LoopDecreases(r.buf))

\* The number of places where bytes holds F1 followed by a fixed opcode.
FixedOpcodes == { 1, 6, 7, 9, 12 }
FixedRequestCount(bytes) ==
    Cardinality({ i \in 1..(Len(bytes) - 1) : bytes[i] = 241 /\ bytes[i + 1] \in FixedOpcodes })

\* C18, for the read step of a session: the parsing loop entered with the
\* buffered bytes terminates, each iteration consuming at least one byte or
\* stopping; the session has emitted no more responses than its input holds
\* F1 followed by a fixed opcode 01, 06, 07, 09, 0C (none if there is none);
\* and input without such a request, whatever unknown opcodes follow an F1,
\* leaves a session in binary state open and in binary state.
C18_Step ==
    \A c \in gvret_clients :
        wire'[c].at > wire[c].at =>
            LET chunk == SubSeq(wire[c].data, wire[c].at + 1, wire'[c].at)
                hs == Handshake(gv[c].buf \o chunk, gv[c].binary)
            IN  /\ hs.binary => LoopDecreases(hs.buf)
                /\ Len(gv'[c].out) <= FixedRequestCount(SubSeq(wire[c].data, 1, wire'[c].at))
                /\ gv[c].binary /\ FixedRequestCount(SubSeq(wire[c].data, 1, wire'[c].at)) = 0 =>
                       gv'[c].binary /\ gv'[c].alive /\ gv'[c].out = << >>

C18_ParserTotal == [][C18_Step]_vars

\* A session in binary state has read F1 followed by the unknown opcode 41
\* and then a keepalive request, and has answered the keepalive alone.
C18_Witness ==
    \E c \in gvret_clients :
        /\ wire[c].data = << 231, 231, 241, 65, 241, 9 >>
        /\ wire[c].at = 6
        /\ gv[c].alive /\ gv[c].binary /\ gv[c].buf = << >>
        /\ gv[c].out = << << 241, 9, 222, 173 >> >>

\* C19: nothing a client sends closes its session: a session is closed only
\* after a read of its connection returned zero bytes or a read or write on
\* its connection failed.
C19_OnlySocketCloses ==
    \A c \in gvret_clients :
        ~gv[c].alive => wire[c].sock \in { "eof", "reset", "wfail" }

\* C19, the resync part: after a read the buffer of a session in binary
\* state is empty or starts with F1.
C19_ResyncToF1 ==
    \A c \in gvret_clients :
        gv[c].binary /\ gv[c].buf # << >> => gv[c].buf[1] = 241

\* C20, for the step in which a session hands one frame for bus b to the
\* transmit path: only the Bus Socket at index b - bus_offset is written, with
\* exactly one frame; an index outside 0..(number of sockets - 1) writes and
\* enqueues nothing; and exactly one entry with direction "tx" is enqueued
\* when the write succeeded and ingest is enabled, none otherwise.
C20_Step ==
    Len(tx_calls') = Len(tx_calls) + 1 =>
        LET call == tx_calls'[Len(tx_calls')]
            idx == call.bus - cfg.bus_offset
        IN  /\ \A i \in DOMAIN can_tx : i # idx => can_tx'[i] = can_tx[i]
            /\ idx \notin 0..(cfg.nsocks - 1) => can_tx' = can_tx /\ ingest' = ingest
            /\ idx \in 0..(cfg.nsocks - 1) =>
                   \/ /\ Len(can_tx'[idx]) = Len(can_tx[idx]) + 1
                      /\ SubSeq(can_tx'[idx], 1, Len(can_tx[idx])) = can_tx[idx]
                      /\ Len(can_tx'[idx][Len(can_tx'[idx])]) = 16
                      /\ IF cfg.pg
                         THEN /\ Len(ingest') = Len(ingest) + 1
                              /\ SubSeq(ingest', 1, Len(ingest)) = ingest
                              /\ ingest'[Len(ingest')].dir = "tx"
                              /\ ingest'[Len(ingest')].bus = call.bus
                         ELSE ingest' = ingest
                   \/ can_tx' = can_tx /\ ingest' = ingest

C20_TxRouting == [][C20_Step]_vars

\* With bus_offset 1 a frame for bus 2 has been written to the Bus Socket at
\* index 1 and enqueued once with direction "tx".
C20_Witness ==
    /\ cfg.bus_offset = 1 /\ cfg.nsocks = 2 /\ cfg.pg
    /\ Len(tx_calls) = 1 /\ tx_calls[1].bus = 2
    /\ can_tx[0] = << >> /\ Len(can_tx[1]) = 1
    /\ Len(ingest) = 1 /\ ingest[1].dir = "tx" /\ ingest[1].bus = 2

\* A frame for a bus without a Bus Socket has been dropped.
C20_WitnessDropped ==
    /\ cfg.bus_offset = 1 /\ cfg.pg
    /\ Len(tx_calls) = 1 /\ tx_calls[1].bus = 0
    /\ \A i \in DOMAIN can_tx : can_tx[i] = << >>
    /\ ingest = << >>

\* The valid CAN FD data lengths.
ValidFdLengths == (0..8) \cup { 12, 16, 20, 24, 32, 48, 64 }

\* C21: for every valid FD length N, dlc_to_len(len_to_dlc(N), is_fd=True) = N;
\* for every DLC D in 0..15, len_to_dlc(dlc_to_len(D, is_fd=True)) = D; and
\* for every length L in 0..64, len_to_dlc(L) is the smallest DLC whose
\* length is >= L.
C21_DlcBijection ==
    /\ calc.fn = "len_to_dlc" /\ calc.stage >= 1 /\ calc.arg \in 0..64 =>
           /\ calc.mid \in 0..15
           /\ FdLen(calc.mid) >= calc.arg
           /\ \A e \in 0..(calc.mid - 1) : FdLen(e) < calc.arg
    /\ calc.fn = "len_to_dlc" /\ calc.stage = 2 /\ calc.is_fd /\ calc.arg \in ValidFdLengths =>
           calc.res = calc.arg
    /\ calc.fn = "dlc_to_len" /\ calc.stage = 2 /\ calc.is_fd /\ calc.arg \in 0..15 =>
           calc.res = calc.arg

\* Length 48 has gone to DLC 14 and back, and DLC 9 to length 12 and back.
C21_Witness ==
    \/ calc = [fn |-> "len_to_dlc", arg |-> 48, is_fd |-> TRUE, stage |-> 2, mid |-> 14, res |-> 48]
    \/ calc = [fn |-> "dlc_to_len", arg |-> 9, is_fd |-> TRUE, stage |-> 2, mid |-> 12, res |-> 9]

C23_ResetAfterDrain ==
    wpc \in {"qget", "qmore", "commit"} =>
        /\ IsEmpty(disk_cache)
        /\ ~draining_cache
        /\ ~IsFull(disk_cache)

\* The worker is inside the queue-overflow flush of the current iteration.
InFlush == wpc \in {"drain", "spill_drain", "spill_drain_last"} /\ drainRet = "connect"

\* The flush starts first thing in the iteration, whatever the SQL store's state.
FlushStarts ==
    wpc = "overflow" /\ wpc' # "overflow" =>
        IF OverThreshold(Len(q))
        THEN wpc' = "drain" /\ drainRet' = "connect" /\ drainBatch' = << >>
        ELSE wpc' = "connect"

\* The flush takes the entries off the queue head by head, hands over a chunk
\* as soon as it holds batch_size rows, and ends only on an empty queue.
FlushPops ==
    InFlush /\ wpc = "drain" =>
        /\ (q # << >> /\ q' = Tail(q) /\ IsRow(Head(q)) =>
                drainBatch' = Append(drainBatch, Head(q)))
        /\ (wpc' = "spill_drain" => Len(drainBatch') = BatchSize)
        /\ (wpc' \in {"spill_drain_last", "connect"} => q = << >> /\ q' = << >>)
        /\ (wpc' = "connect" => drainBatch = << >>)

\* A chunk is appended to the spill store behind what is there, in queue
\* order; with mayDrop, a full or closed store drops and counts it instead.
FlushSpills(mayDrop) ==
    InFlush /\ wpc \in {"spill_drain", "spill_drain_last"} /\ wpc' # wpc =>
        /\ Len(drainBatch) \in 1..BatchSize
        /\ \/ /\ CacheRows(disk_cache') = CacheRows(disk_cache) \o drainBatch
              /\ count_dropped' = count_dropped
           \/ /\ mayDrop
              /\ IsFull(disk_cache) \/ disk_cache.closed
              /\ disk_cache' = disk_cache
              /\ count_dropped' = count_dropped + Len(drainBatch)
        /\ wpc = "spill_drain_last" => wpc' = "connect"

\* No SQL connect or commit before the flush is over.
FlushBeforeSql == InFlush \/ wpc = "overflow" => UNCHANGED << conn, committed >>

\* C24 as stated: at the start of every worker iteration with the queue at or
\* over the flush threshold, the worker moves every queued entry to the spill
\* store, in queue order and in chunks of at most batch_size, before any SQL
\* connect or commit and whatever the SQL store's state; the flush ends with
\* the queue empty.
C24_OverflowFlush ==
    [][FlushStarts /\ FlushPops /\ FlushSpills(FALSE) /\ FlushBeforeSql]_vars

\* C24, amended: the same, except that a chunk handed to a full (or closed)
\* spill store is dropped and counted in count_dropped instead of appended.
C24_OverflowFlushOrDrop ==
    [][FlushStarts /\ FlushPops /\ FlushSpills(TRUE) /\ FlushBeforeSql]_vars

\* An overflow flush, started while the SQL store was reachable and the
\* worker connected, has moved two chunks to the spill store and emptied the
\* queue.
C24_Witness ==
    /\ wpc = "connect" /\ drainRet = "connect" /\ conn /\ dbUp
    /\ q = << >> /\ Count(disk_cache) > BatchSize /\ committed = << >>

\* C25: a session whose frame push fails is closed and is removed from the
\* session registry by the removal pass of that frame: after the Bridge Core
\* has processed a frame, no session that the fan-out closed is registered.
C25_ClosedRemoved ==
    [][bus_rx' # bus_rx =>
          \A c \in gvret_clients' : c \in DOMAIN gv /\ gv[c].alive => gv'[c].alive]_vars

\* The bytes session c receives in the step being taken.
NewBytes(c) == SubSeq(wire[c].data, wire[c].at + 1, wire'[c].at)

\* C26: in binary state the bytes of a BUILD_FRAME request are request data.
\* A session that has received a complete BUILD_FRAME request holding two
\* consecutive E7 bytes has handed exactly one frame, carrying those bytes, to
\* the transmit path; and a receive step of a session in binary state whose
\* buffer holds an incomplete BUILD_FRAME request discards none of it.
C26_PairInRequest ==
    /\ [](\A c \in gvret_clients :
            LET rest == AfterFirstPair(Received(c))
            IN  /\ gv[c].alive /\ gv[c].binary
                /\ CompleteFrame(rest)
                /\ FindPair(SubSeq(rest, 1, 8 + rest[8])) # 0
                => tx_calls = << InjectedFrame(rest) >>)
    /\ [][\A c \in gvret_clients :
            /\ gv[c].binary /\ gv'[c].alive
            /\ Len(gv[c].buf) >= 2 /\ gv[c].buf[1] = F1 /\ gv[c].buf[2] = 0
            /\ ~CompleteFrame(gv[c].buf \o NewBytes(c))
            => gv'[c].buf = gv[c].buf \o NewBytes(c)]_vars

\* The step hands a frame to the transmit path for a bus that has a Bus
\* Socket, and the write to that socket fails (nothing reaches any socket).
TxWriteFails ==
    /\ Len(tx_calls') = Len(tx_calls) + 1
    /\ tx_calls'[Len(tx_calls')].bus - cfg.bus_offset \in 0..(cfg.nsocks - 1)
    /\ can_tx' = can_tx

\* C27: a failed write to a Bus Socket on the transmit path is recovered
\* locally: no ingest entry is made for the frame, and the session that sent
\* the request stays open (its own connection being intact).
C27_TxFailureLocal ==
    [][TxWriteFails =>
          /\ ingest' = ingest
          /\ \A c \in gvret_clients :
                gv[c].alive /\ wire'[c].sock = "ok" => gv'[c].alive]_vars

\* C28: the Bridge Core event loop never terminates because of a component
\* error: whatever fails (accept, session construction, a Bus Socket read, a
\* push, an enqueue), run() is still looping.
C28_LoopKeepsRunning == running

\* C29: the spill store is operated on by the worker only: a step of the
\* owner (close() and its emergency flush) that appends to the spill store or
\* closes it is taken only once the worker thread has ended.
C29_WorkerOwnsSpillStore ==
    [][opc' # opc /\ disk_cache' # disk_cache => wpc = "done"]_vars

\* C30: every write to a Bus Socket is made by the Bridge Core event-loop
\* task: a step that writes a frame to a Bus Socket is not a receive pass of
\* a session's thread (no session reads from its connection in it).
C30_BusSocketOwner ==
    [][can_tx' # can_tx => \A c \in gvret_clients : wire'[c].at = wire[c].at]_vars

\* The tasks inside the session's send operation (holding the lock).
InsideSend == { t \in Senders : snd.pc[t] \in { "in", "closing", "release" } }

\* The bytes written to the connection by task t, in order.
WrittenBy(t) == SelectSeq(snd.out, LAMBDA e : e.by = t)

\* C31: writes to one client's connection are mutually exclusive.  At most
\* one task is inside _send; the bytes on the wire are whole messages one
\* after the other (only the last may be cut short, by a failed write), never
\* the bytes of a response mixed with those of a push; and the lock is held
\* only by a task inside _send, which leaves it also after a failed write.
C31_SendExclusive ==
    /\ Cardinality(InsideSend) <= 1
    /\ \A i \in 1..(Len(snd.out) - 1) :
          snd.out[i].by # snd.out[i + 1].by
          => \E m \in 1..i : /\ m + Len(SendMessage(snd.out[i].by)) - 1 = i
                             /\ \A k \in m..i : snd.out[k].by = snd.out[i].by
                             /\ [k \in 1..(i - m + 1) |-> snd.out[m + k - 1].b]
                                  = SendMessage(snd.out[i].by)
    /\ snd.lock # "free" => InsideSend = { snd.lock }
    /\ snd.lock = "free" => InsideSend = {}

\* Both tasks have written a whole message, the Bridge Core while the
\* receive thread was waiting for the lock, and a later write has failed and
\* closed the session with the lock free again.
C31_Witness ==
    /\ Len(WrittenBy("rx")) >= Len(SendMessage("rx"))
    /\ Len(WrittenBy("core")) >= Len(SendMessage("core"))
    /\ ~snd.alive /\ snd.lock = "free" /\ snd.n = MaxSends
    /\ snd.pc["core"] = "idle"

\* The occupancy level (80, 95, 100, or -1 below 80%) of a queue of capacity
\* WarnCap holding n entries.
Level(n) == BucketForRatio(n, WarnCap)

\* The step emits a threshold warning / a "recovered" notice (the code sets
\* _last_bucket exactly when it logs one).
WarningEmitted == last_bucket' # last_bucket /\ last_bucket' # -1
RecoveredEmitted == last_bucket' # last_bucket /\ last_bucket' = -1

\* C33: a warning is emitted exactly on an upward edge, i.e. by an enqueue
\* that takes the occupancy from below a level to at or above it, and names
\* the level reached; no warning is emitted by a step that leaves the
\* occupancy in its level or below it; an enqueue that finds the occupancy
\* under 80% after a warning emits the "recovered" notice.
C33_UpwardEdgeWarnings ==
    [][/\ (Len(q') > Len(q) /\ Level(Len(q')) > Level(Len(q))
             => WarningEmitted /\ last_bucket' = Level(Len(q')))
       /\ (WarningEmitted => Len(q') > Len(q) /\ Level(Len(q')) > Level(Len(q)))
       /\ (Len(q') > Len(q) /\ Level(Len(q')) = -1 /\ last_bucket # -1 => RecoveredEmitted)
      ]_vars

\* C37 (backoff counted in half seconds): the backoff is one of 0.5, 1, 2, 4,
\* 8, 10 s; it starts at 0.5 s; each sleep of the failure handler uses the
\* current value and leaves it doubled, capped at 10 s; a successful connect
\* sets it to 0.5 s, and nothing else changes it.
C37_Backoff ==
    /\ [](backoff \in { 1, 2, 4, 8, 16, 20 })
    /\ [](attempts = 0 /\ wpc = "loop" /\ ~db_unavailable /\ dbFails = 0 /\ ~conn => backoff = 1)
    /\ [][/\ (wpc = "sleep" /\ wpc' # "sleep" =>
                 backoff' = IF 2 * backoff > 20 THEN 20 ELSE 2 * backoff)
          /\ (~conn /\ conn' => backoff' = 1)
          /\ (backoff' # backoff => (wpc = "sleep" /\ wpc' # "sleep") \/ (~conn /\ conn'))
         ]_vars

\* The backoff has been doubled up to its cap (five sleeps: 0.5, 1, 2, 4 and
\* 8 s) and the worker is about to sleep 10 s.
C37_Witness == backoff = 20 /\ wpc = "sleep" /\ db_unavailable /\ ~conn

\* Rows that entered the queue: still queued, in the worker's hands, or dropped
\* at the spill store (no row is committed or spilled in SpecCounters).
Inserted == Len(q) + Len(drainBatch) + Cardinality(droppedRows)

\* C38: the counters are exact under concurrency.  Whenever no thread is
\* inside a counter update, count_enqueued is the number of successful queue
\* insertions and count_dropped the number of queue-full rejections plus the
\* number of rows dropped at the spill store; and no counter ever decreases.
C38_CountersExact ==
    /\ []((\A t \in Counters : reg[t].pc = "idle") =>
             /\ count_enqueued = Inserted
             /\ count_dropped = (attempts - Inserted) + Cardinality(droppedRows))
    /\ [][count_enqueued' >= count_enqueued /\ count_dropped' >= count_dropped]_vars

\* The frame pushes sent to session c for bus b, the frames read from the Bus
\* Socket at index idx and the ingest entries of bus b, each in order.
PushesForBus(c, b) == SelectSeq(gv[c].out, LAMBDA m : IsPush(m) /\ m[11] \div 16 = b)

FramesOfSocket(idx) == SelectSeq(bus_rx, LAMBDA r : r.idx = idx)

EntriesForBus(b) == SelectSeq(ingest, LAMBDA e : e.bus = b)

\* The pushes ps are pushes of frames of rs, taken in the order of rs (a
\* session sees the frames read while it was open and in binary state).
RECURSIVE InReceiveOrder(_, _, _)
InReceiveOrder(ps, rs, b) ==
    IF ps = << >> THEN TRUE
    ELSE IF rs = << >> THEN FALSE
    ELSE \/ IsPushOf(Head(ps), Head(rs).frame, b) /\ InReceiveOrder(Tail(ps), Tail(rs), b)
         \/ InReceiveOrder(ps, Tail(rs), b)

\* e is the ingest entry of the Bus Socket frame `frame` on bus b.
IsEntryOf(e, frame, b) ==
    LET n == IF frame[5] <= 8 THEN frame[5] ELSE 8
    IN  /\ e.bus = b
        /\ ToBytesLE(e.can_id) = SubSeq(frame, 1, 4)
        /\ e.data = SubSeq(frame, 9, 8 + n)

\* C32: for every Bus Socket, the frame pushes a session has been sent for
\* that bus follow the order in which the frames were read from the socket,
\* and the ingest entries of that bus are the frames read from it, one entry
\* per frame, in the same order.
C32_ReceiveOrder ==
    \A idx \in 0..(cfg.nsocks - 1) :
        LET b == cfg.bus_offset + idx
            rs == FramesOfSocket(idx)
            es == EntriesForBus(b)
        IN  /\ \A c \in 1..Len(gv) : InReceiveOrder(PushesForBus(c, b), rs, b)
            /\ Len(es) = Len(rs)
            /\ \A i \in 1..Len(es) : IsEntryOf(es[i], rs[i].frame, b)

\* Two different frames of the second Bus Socket, with a frame of the first
\* one read between them, have been pushed to a session that is still open.
C32_Witness ==
    /\ Len(bus_rx) = 3
    /\ bus_rx[1].idx = 1 /\ bus_rx[2].idx = 0 /\ bus_rx[3].idx = 1
    /\ bus_rx[1].frame # bus_rx[3].frame
    /\ Len(ingest) = 3
    /\ \E c \in gvret_clients : gv[c].alive /\ Len(gv[c].out) = 3

\* The step reads one frame from a Bus Socket; the frame read.
ReadStep == Len(bus_rx') = Len(bus_rx) + 1

FrameRead == bus_rx'[Len(bus_rx')].frame

\* C35: a read from a Bus Socket whose size is neither 16 nor 72 bytes is
\* discarded: no session is sent anything or closed, nothing is enqueued, and
\* the event loop goes on.
C35_OddSizeDiscarded ==
    [][ReadStep /\ Len(FrameRead) \notin { 16, 72 }
           => gv' = gv /\ ingest' = ingest /\ running']_vars

\* The frame has the remote-transmission flag (bit 30 of can_id).
IsRtr(frame) == (frame[4] % 128) >= 64

\* C36: the frame push and the ingest entry of a received frame with the
\* remote-transmission flag have an empty payload, whatever its DLC.
C36_RtrNoPayload ==
    [][ReadStep /\ Len(FrameRead) = 16 /\ IsRtr(FrameRead)
           => /\ \A msg \in PushesOfStep : Len(msg) = 12
              /\ Len(ingest') = Len(ingest) + 1 => ingest'[Len(ingest')].data = << >>]_vars

\* C34: once the Ingest Pipeline has been closed (close() has returned in
\* main()'s finally clause), no session writes a frame to a Bus Socket or
\* enqueues an entry, and the Bridge Core reads no frame and accepts no
\* session.
C34_QuietAfterClose ==
    [][opc = "closed" => /\ can_tx' = can_tx
                         /\ ingest' = ingest
                         /\ bus_rx' = bus_rx
                         /\ gvret_clients' = gvret_clients]_vars

====
